---------------------------- MODULE Spec2Model ----------------------------
(***************************************************************************)
(* PlanVault server: the storage layer (server/storage.ts, both the        *)
(* Postgres-backed DatabaseStorage and the in-process MemStorage), the     *)
(* table constraints of shared/schema.ts and the HTTP handlers of          *)
(* server/routes.ts.                                                       *)
(*                                                                         *)
(* A request is handled by an async function.  Every `await` is a point    *)
(* where another request may run, so a handler is a sequence of atomic     *)
(* steps, one per store call.  The first store call of a handler is issued *)
(* synchronously when the request arrives, so arrival and first call are   *)
(* one step.                                                               *)
(*                                                                         *)
(* Time is counted in days.  Ids, session tokens and encryption keys are   *)
(* drawn from randomUUID / crypto.randomBytes(32): they are modelled as    *)
(* fresh values (a counter), and a client can present only a token that    *)
(* was issued, or one that never will be (BogusToken).                     *)
(***************************************************************************)
EXTENDS Integers, Sequences, FiniteSets, TLC

\* The field names of the store's results, the requests, the responses and
\* the rows, in the one order in which every record of the model lists them.
FieldOrder ==
    [ok |-> 0, users |-> 0, events |-> 0, event |-> 0,
     reminders |-> 0, reminder |-> 0, deleted |-> 0, req |-> 0,
     status |-> 0, kind |-> 0, pc |-> 0, id |-> 0, eventId |-> 0,
     query |-> 0, body |-> 0, header |-> 0, user |-> 0, userId |-> 0,
     sessionToken |-> 0, expiresAt |-> 0, username |-> 0,
     password |-> 0, recoveryKey |-> 0, encryptionKey |-> 0,
     title |-> 0, description |-> 0, startDate |-> 0, endDate |-> 0,
     category |-> 0, isRecurring |-> 0, recurringPattern |-> 0,
     recurringEndDate |-> 0, encryptedData |-> 0, createdAt |-> 0,
     updatedAt |-> 0, minutesBefore |-> 0, isTriggered |-> 0,
     message |-> 0, scheme |-> 0, token |-> 0, start |-> 0, end |-> 0,
     rows |-> 0, counts |-> 0, count |-> 0]


\* ---------------------------------------------------------------- bounds
MaxUsers == 2
MaxTokens == 2
MaxEvents == 2
MaxReminders == 1

\* routes.ts:76 and :117, `7 * 24 * 60 * 60 * 1000` ms, in days
SessionLifetime == 7

\* The instants at which the clock is read: two creation times, and for a
\* session created at 0 its exact expiry instant and a later one.
Instants == {0, 1, SessionLifetime, SessionLifetime + 1}

Clients == {"c1", "c2"}

\* the components that call useAuth()
Components == {"Router", "LoginPage", "AppSidebar"}

Usernames == {"alice", "bob"}
Passwords == {"Secret123!", "Hunter2000"}
\* request bodies that registerSchema / loginSchema reject
ShortUsername == "al"
EmptyString == ""

BogusToken == 0
NoId == 0

\* JavaScript null, per column type
NullStr == "<null>"
NullDate == -1

\* Optional values (T | undefined) are sequences of length 0 or 1.
Undefined == << >>
Some(x) == << x >>
IsDefined(o) == o # << >>
Get(o) == o[1]

VARIABLES
    backend,     \* "db" | "mem": storage.ts:298, fixed at process start
    now,         \* the clock, in days
    users,       \* sequence of user rows in insertion order; id = position
    sessions,    \* sessionToken -> session row
    nextToken,   \* number of tokens generated so far
    events,      \* id -> event row
    nextEventId, \* number of event ids generated so far
    reminders,   \* id -> reminder row
    nextReminderId,
    req,         \* Clients -> the request each connection has in flight
    resp,        \* the last response sent, with the request it answers
    deletedTokens,  \* history: tokens for which deleteSession has completed
    deletedEvents,  \* history: event ids removed by deleteEvent
    registered,     \* history: the bodies of the 200 responses of register
    \* the browser (client/src): one tab of the single-page application
    localStorage,   \* the 'sessionToken' entry, or Undefined
    hooks,          \* component -> the sessionToken state of its useAuth()
    me,             \* the cached data of the query ['/api/auth/me']
    queryFn,        \* the default queryFn: the token and the component of
                    \* the closure that useAuth's effect installed
    inflight,       \* queries sent through queryFn and not yet answered
    rejected,       \* history: tokens for which a query has received 401
    importPc,       \* importEventsMutation: "idle" | "post" | "done"
    importFile,     \* the events read from the file
    importQueue,    \* uniqueEvents still to be posted
    importPosted,   \* history: the events for which a POST was issued
    importCreated,  \* results: the ids of the events the POSTs created
    importExisting, \* history: the keys of the events the user had when the
                    \* import started
    importSkipped   \* the skipped count

vars == << backend, now, users, sessions, nextToken, events, nextEventId,
           reminders, nextReminderId, req, resp,
           deletedTokens, deletedEvents, registered,
           localStorage, hooks, me, queryFn, inflight, rejected,
           importPc, importFile, importQueue, importPosted, importCreated,
           importExisting, importSkipped >>

authVars == << localStorage, hooks, me, queryFn, inflight, rejected >>

importVars == << importPc, importFile, importQueue, importPosted,
                 importCreated, importExisting, importSkipped >>

clientVars == << authVars, importVars >>

storeVars == << users, sessions, nextToken, events, nextEventId,
                reminders, nextReminderId >>

\* ------------------------------------------------------------- functions
EmptyFcn == [x \in {} |-> 0]

Remove(f, k) == [x \in DOMAIN f \ {k} |-> f[x]]

Put(f, k, v) == [x \in DOMAIN f \cup {k} |-> IF x = k THEN v ELSE f[x]]

\* { ...a, ...b }
Merge(a, b) ==
    [k \in DOMAIN a \cup DOMAIN b |-> IF k \in DOMAIN b THEN b[k] ELSE a[k]]

\* ---------------------------------------------------------------- bcrypt
\* bcrypt.hash(password, 10): a one-way value from which only compare tells
\* whether a password matches.
Hash(password) == << "bcrypt", password >>

\* a compare that accepts every password
CompareAny(password, hash) == TRUE

Compare(password, hash) == hash = Hash(password)

\* ------------------------------------------------------------ validation
RegisterSchemaOk(body) ==
    /\ Len(body.username) >= 3
    /\ Len(body.username) <= 50
    /\ Len(body.password) >= 8

LoginSchemaOk(body) ==
    /\ Len(body.username) >= 1
    /\ Len(body.password) >= 1

\* ------------------------------------------------------ users (storage.ts)
\* a getUser that answers with the first user whatever the id
MemGetUserFirst(us, id) ==
    IF Len(us) > 0 THEN Some(us[1]) ELSE Undefined

MemGetUser(us, id) ==
    IF id \in 1..Len(us) THEN Some(us[id]) ELSE Undefined

DbGetUser(us, id) ==
    IF id \in 1..Len(us) THEN Some(us[id]) ELSE Undefined

\* a getUserByUsername that finds nobody
MemGetUserByUsernameNone(us, username) == Undefined

\* Array.from(values).find(...): the first match in insertion order
MemGetUserByUsername(us, username) ==
    LET hits == {i \in 1..Len(us) : us[i].username = username}
    IN  IF hits = {} THEN Undefined
        ELSE Some(us[CHOOSE i \in hits : \A j \in hits : i <= j])

DbGetUserByUsername(us, username) ==
    LET hits == {i \in 1..Len(us) : us[i].username = username}
    IN  IF hits = {} THEN Undefined
        ELSE Some(us[CHOOSE i \in hits : \A j \in hits : i <= j])

NewUser(us, insertUser) ==
    [id |-> Len(us) + 1,
     username |-> insertUser.username,
     password |-> insertUser.password,
     recoveryKey |-> insertUser.recoveryKey,
     encryptionKey |-> insertUser.encryptionKey]

\* MemStorage.createUser: a Map.set under a fresh id, nothing is checked
MemCreateUser(us, insertUser) ==
    [ok |-> TRUE, users |-> Append(us, NewUser(us, insertUser)),
     user |-> Some(NewUser(us, insertUser))]

\* DatabaseStorage.createUser: the insert fails on users.username's
\* unique() constraint (schema.ts:9) and the promise rejects
DbCreateUser(us, insertUser) ==
    IF \E i \in 1..Len(us) : us[i].username = insertUser.username
    THEN [ok |-> FALSE, users |-> us, user |-> Undefined]
    ELSE [ok |-> TRUE, users |-> Append(us, NewUser(us, insertUser)),
          user |-> Some(NewUser(us, insertUser))]

\* --------------------------------------------------- sessions (storage.ts)
MemCreateSessionSingle(ss, insertSession) ==
    Put([tok \in {x \in DOMAIN ss : ss[x].userId # insertSession.userId}
            |-> ss[tok]],
        insertSession.sessionToken, insertSession)

MemCreateSession(ss, insertSession) ==
    Put(ss, insertSession.sessionToken, insertSession)

DbCreateSession(ss, insertSession) ==
    Put(ss, insertSession.sessionToken, insertSession)

\* a getSession with the comparison of the other backend
MemGetSessionInclusive(ss, sessionToken, t) ==
    IF sessionToken \in DOMAIN ss /\ ss[sessionToken].expiresAt >= t
    THEN Some(ss[sessionToken]) ELSE Undefined

\* session && session.expiresAt > new Date()
MemGetSession(ss, sessionToken, t) ==
    IF sessionToken \in DOMAIN ss /\ ss[sessionToken].expiresAt > t
    THEN Some(ss[sessionToken]) ELSE Undefined

\* a getSession that does not look at expiresAt
DbGetSessionAnyExpiry(ss, sessionToken, t) ==
    IF sessionToken \in DOMAIN ss THEN Some(ss[sessionToken]) ELSE Undefined

\* where session_token = $1 and expires_at >= now
DbGetSession(ss, sessionToken, t) ==
    IF sessionToken \in DOMAIN ss /\ ss[sessionToken].expiresAt >= t
    THEN Some(ss[sessionToken]) ELSE Undefined

\* a deleteSession that deletes nothing
MemDeleteSessionKeeps(ss, sessionToken) == ss

MemDeleteSession(ss, sessionToken) == Remove(ss, sessionToken)

\* the same operation without the WHERE clause
DbDeleteSessionAll(ss, sessionToken) == [x \in {} |-> ss[x]]

DbDeleteSession(ss, sessionToken) == Remove(ss, sessionToken)

\* ----------------------------------------------------- events (storage.ts)
\* All orderings of the rows f[i], i \in ids, that are non-decreasing in key[i]
Orderings(f, ids, key) ==
    LET n == Cardinality(ids)
        perms == {p \in [1..n -> ids] :
                     /\ \A i, j \in 1..n : i # j => p[i] # p[j]
                     /\ \A i, j \in 1..n : i < j => key[p[i]] <= key[p[j]]}
    IN  {[i \in 1..n |-> f[p[i]]] : p \in perms}

\* The ordering in which rows of equal key stay in Map insertion order
\* (ids are generated in increasing order; Map.set on an existing key keeps
\* its position; Array.prototype.sort is stable)
StableOrdering(f, ids, key) ==
    LET n == Cardinality(ids)
        p == CHOOSE q \in [1..n -> ids] :
                 /\ \A i, j \in 1..n : i # j => q[i] # q[j]
                 /\ \A i, j \in 1..n : i < j =>
                        \/ key[q[i]] < key[q[j]]
                        \/ key[q[i]] = key[q[j]] /\ q[i] < q[j]
    IN  [i \in 1..n |-> f[p[i]]]

\* the sort key of each row: its startDate, or none
StartDates(evs) == [i \in DOMAIN evs |-> evs[i].startDate]
NoKey(rems) == [i \in DOMAIN rems |-> 0]

\* a filter that leaves the bounds themselves out
InRangeExclusive(e, startDate, endDate) ==
    IsDefined(startDate) /\ IsDefined(endDate) =>
        e.startDate > Get(startDate) /\ e.startDate < Get(endDate)

\* a filter that applies each bound that is given
InRangeEither(e, startDate, endDate) ==
    /\ IsDefined(startDate) => e.startDate >= Get(startDate)
    /\ IsDefined(endDate) => e.startDate <= Get(endDate)

\* `if (startDate && endDate)`: a Date object is truthy
InRange(e, startDate, endDate) ==
    IsDefined(startDate) /\ IsDefined(endDate) =>
        e.startDate >= Get(startDate) /\ e.startDate <= Get(endDate)

MemGetEvents(evs, userId, startDate, endDate) ==
    StableOrdering(evs,
        {i \in DOMAIN evs : evs[i].userId = userId
                            /\ InRange(evs[i], startDate, endDate)},
        StartDates(evs))

\* `order by start_date` leaves the order of equal start dates open: the set
\* of row sequences the query may return
DbGetEvents(evs, userId, startDate, endDate) ==
    Orderings(evs,
        {i \in DOMAIN evs : evs[i].userId = userId
                            /\ InRange(evs[i], startDate, endDate)},
        StartDates(evs))

\* the same operation without the comparison of the owner
MemGetEventAnyOwner(evs, id, userId) ==
    IF id \in DOMAIN evs THEN Some(evs[id]) ELSE Undefined

MemGetEvent(evs, id, userId) ==
    IF id \in DOMAIN evs /\ evs[id].userId = userId
    THEN Some(evs[id]) ELSE Undefined

DbGetEvent(evs, id, userId) ==
    IF id \in DOMAIN evs /\ evs[id].userId = userId
    THEN Some(evs[id]) ELSE Undefined

\* x || d on a string column: absent, null and "" are falsy
OrStr(body, k, d) ==
    IF k \in DOMAIN body /\ body[k] \notin {EmptyString, NullStr}
    THEN body[k] ELSE d

\* x || d on a date column: absent and null are falsy
OrDate(body, k, d) ==
    IF k \in DOMAIN body /\ body[k] # NullDate THEN body[k] ELSE d

\* x || false on a boolean
OrBool(body, k) == k \in DOMAIN body /\ body[k]

\* a column left out of the insert takes its default (schema.ts:16-30)
Default(body, k, d) == IF k \in DOMAIN body THEN body[k] ELSE d

MemNewEvent(id, insertEvent, t) ==
    [id |-> id,
     userId |-> insertEvent.userId,
     title |-> insertEvent.title,
     description |-> OrStr(insertEvent, "description", NullStr),
     startDate |-> insertEvent.startDate,
     endDate |-> OrDate(insertEvent, "endDate", NullDate),
     category |-> OrStr(insertEvent, "category", "personal"),
     isRecurring |-> OrBool(insertEvent, "isRecurring"),
     recurringPattern |-> OrStr(insertEvent, "recurringPattern", NullStr),
     recurringEndDate |-> OrDate(insertEvent, "recurringEndDate", NullDate),
     encryptedData |-> OrStr(insertEvent, "encryptedData", NullStr),
     createdAt |-> t,
     updatedAt |-> t]

DbNewEvent(id, insertEvent, t) ==
    [id |-> id,
     userId |-> insertEvent.userId,
     title |-> insertEvent.title,
     description |-> Default(insertEvent, "description", NullStr),
     startDate |-> insertEvent.startDate,
     endDate |-> Default(insertEvent, "endDate", NullDate),
     category |-> Default(insertEvent, "category", "personal"),
     isRecurring |-> Default(insertEvent, "isRecurring", FALSE),
     recurringPattern |-> Default(insertEvent, "recurringPattern", NullStr),
     recurringEndDate |-> Default(insertEvent, "recurringEndDate", NullDate),
     encryptedData |-> Default(insertEvent, "encryptedData", NullStr),
     createdAt |-> t,
     updatedAt |-> t]

MemCreateEvent(evs, id, insertEvent, t) ==
    [events |-> Put(evs, id, MemNewEvent(id, insertEvent, t)),
     event |-> MemNewEvent(id, insertEvent, t)]

DbCreateEvent(evs, id, insertEvent, t) ==
    [events |-> Put(evs, id, DbNewEvent(id, insertEvent, t)),
     event |-> DbNewEvent(id, insertEvent, t)]

\* the same operation without the comparison of the owner
MemUpdateEventAnyOwner(evs, id, userId, updates, t) ==
    IF id \notin DOMAIN evs
    THEN [events |-> evs, event |-> Undefined]
    ELSE LET updatedEvent == Merge(Merge(evs[id], updates), [updatedAt |-> t])
         IN  [events |-> Put(evs, id, updatedEvent),
              event |-> Some(updatedEvent)]

\* the same operation writing the row as a new one
MemUpdateEventRecreate(evs, id, userId, updates, t) ==
    IF id \notin DOMAIN evs \/ evs[id].userId # userId
    THEN [events |-> evs, event |-> Undefined]
    ELSE LET updatedEvent == Merge(Merge(evs[id], updates),
                                   [createdAt |-> t, updatedAt |-> t])
         IN  [events |-> Put(evs, id, updatedEvent),
              event |-> Some(updatedEvent)]

\* the same operation with the spread written { ...updates, ...event }
MemUpdateEventSpreadSwapped(evs, id, userId, updates, t) ==
    IF id \notin DOMAIN evs \/ evs[id].userId # userId
    THEN [events |-> evs, event |-> Undefined]
    ELSE LET updatedEvent == Merge(Merge(updates, evs[id]), [updatedAt |-> t])
         IN  [events |-> Put(evs, id, updatedEvent),
              event |-> Some(updatedEvent)]

MemUpdateEvent(evs, id, userId, updates, t) ==
    IF id \notin DOMAIN evs \/ evs[id].userId # userId
    THEN [events |-> evs, event |-> Undefined]
    ELSE LET updatedEvent == Merge(Merge(evs[id], updates), [updatedAt |-> t])
         IN  [events |-> Put(evs, id, updatedEvent),
              event |-> Some(updatedEvent)]

\* the same operation without the refresh of updatedAt
DbUpdateEventKeepsStamp(evs, id, userId, updates, t) ==
    IF id \in DOMAIN evs /\ evs[id].userId = userId
    THEN LET row == Merge(evs[id], updates)
         IN  [events |-> Put(evs, id, row), event |-> Some(row)]
    ELSE [events |-> evs, event |-> Undefined]

DbUpdateEvent(evs, id, userId, updates, t) ==
    IF id \in DOMAIN evs /\ evs[id].userId = userId
    THEN LET row == Merge(evs[id], Merge(updates, [updatedAt |-> t]))
         IN  [events |-> Put(evs, id, row), event |-> Some(row)]
    ELSE [events |-> evs, event |-> Undefined]

\* the same operation without the comparison of the owner
MemDeleteEventAnyOwner(evs, rems, id, userId) ==
    IF id \notin DOMAIN evs
    THEN [events |-> evs, reminders |-> rems, deleted |-> FALSE]
    ELSE [events |-> Remove(evs, id), reminders |-> rems, deleted |-> TRUE]

\* MemStorage.deleteEvent touches this.events only
MemDeleteEvent(evs, rems, id, userId) ==
    IF id \notin DOMAIN evs \/ evs[id].userId # userId
    THEN [events |-> evs, reminders |-> rems, deleted |-> FALSE]
    ELSE [events |-> Remove(evs, id), reminders |-> rems, deleted |-> TRUE]

\* the same operation without the test of rowCount
DbDeleteEventReportsTrue(evs, rems, id, userId) ==
    IF id \in DOMAIN evs /\ evs[id].userId = userId
    THEN [events |-> Remove(evs, id),
          reminders |-> [r \in {x \in DOMAIN rems : rems[x].eventId # id}
                            |-> rems[r]],
          deleted |-> TRUE]
    ELSE [events |-> evs, reminders |-> rems, deleted |-> TRUE]

\* DatabaseStorage.deleteEvent: reminders.event_id is declared
\* `onDelete: "cascade"` (schema.ts:34), so the rows of the event go with it
DbDeleteEvent(evs, rems, id, userId) ==
    IF id \in DOMAIN evs /\ evs[id].userId = userId
    THEN [events |-> Remove(evs, id),
          reminders |-> [r \in {x \in DOMAIN rems : rems[x].eventId # id}
                            |-> rems[r]],
          deleted |-> TRUE]
    ELSE [events |-> evs, reminders |-> rems, deleted |-> FALSE]

\* -------------------------------------------------- reminders (storage.ts)
\* Array.from(values).filter(...): insertion order
MemGetEventReminders(rems, eventId) ==
    StableOrdering(rems, {i \in DOMAIN rems : rems[i].eventId = eventId},
        NoKey(rems))

\* no ORDER BY: any order
DbGetEventReminders(rems, eventId) ==
    Orderings(rems, {i \in DOMAIN rems : rems[i].eventId = eventId},
        NoKey(rems))

NewReminder(id, insertReminder) ==
    [id |-> id,
     eventId |-> insertReminder.eventId,
     minutesBefore |-> insertReminder.minutesBefore,
     isTriggered |-> FALSE]

\* .values(insertReminder): a column the insert leaves out takes its
\* default, is_triggered false (schema.ts:36)
DbNewReminder(id, insertReminder) ==
    [id |-> id,
     eventId |-> insertReminder.eventId,
     minutesBefore |-> insertReminder.minutesBefore,
     isTriggered |-> Default(insertReminder, "isTriggered", FALSE)]

MemCreateReminder(rems, evs, id, insertReminder) ==
    [ok |-> TRUE,
     reminders |-> Put(rems, id, NewReminder(id, insertReminder)),
     reminder |-> Some(NewReminder(id, insertReminder))]

\* the insert fails on the foreign key reminders.event_id -> events.id
\* (schema.ts:34) when the event row is gone
DbCreateReminder(rems, evs, id, insertReminder) ==
    IF insertReminder.eventId \in DOMAIN evs
    THEN [ok |-> TRUE,
          reminders |-> Put(rems, id, DbNewReminder(id, insertReminder)),
          reminder |-> Some(DbNewReminder(id, insertReminder))]
    ELSE [ok |-> FALSE, reminders |-> rems, reminder |-> Undefined]

\* one { category, count } entry per user event, before any grouping
CountsUngrouped(evs, userId) ==
    {[category |-> evs[i].category, count |-> 1] :
        i \in {j \in DOMAIN evs : evs[j].userId = userId}}

\* group by category, count(*): the { category, count } entries of the
\* array returned, whose order is left open
CountsByCategory(evs, userId) ==
    LET mine == {i \in DOMAIN evs : evs[i].userId = userId}
        cats == {evs[i].category : i \in mine}
    IN  {[category |-> c,
          count |-> Cardinality({i \in mine : evs[i].category = c})] :
            c \in cats}

MemGetEventCountsByCategory(evs, userId) == CountsByCategory(evs, userId)

DbGetEventCountsByCategory(evs, userId) == CountsByCategory(evs, userId)

\* storage.ts:298: the one store object the handlers use
GetUser(id) ==
    IF backend = "db" THEN DbGetUser(users, id) ELSE MemGetUser(users, id)

GetUserByUsername(username) ==
    IF backend = "db" THEN DbGetUserByUsername(users, username)
    ELSE MemGetUserByUsername(users, username)

CreateUser(insertUser) ==
    IF backend = "db" THEN DbCreateUser(users, insertUser)
    ELSE MemCreateUser(users, insertUser)

CreateSession(insertSession) ==
    IF backend = "db" THEN DbCreateSession(sessions, insertSession)
    ELSE MemCreateSession(sessions, insertSession)

GetSession(sessionToken) ==
    IF backend = "db" THEN DbGetSession(sessions, sessionToken, now)
    ELSE MemGetSession(sessions, sessionToken, now)

DeleteSession(sessionToken) ==
    IF backend = "db" THEN DbDeleteSession(sessions, sessionToken)
    ELSE MemDeleteSession(sessions, sessionToken)

GetEvents(evs, userId, startDate, endDate) ==
    IF backend = "db" THEN DbGetEvents(evs, userId, startDate, endDate)
    ELSE {MemGetEvents(evs, userId, startDate, endDate)}

GetEvent(evs, id, userId) ==
    IF backend = "db" THEN DbGetEvent(evs, id, userId)
    ELSE MemGetEvent(evs, id, userId)

CreateEvent(evs, id, insertEvent) ==
    IF backend = "db" THEN DbCreateEvent(evs, id, insertEvent, now)
    ELSE MemCreateEvent(evs, id, insertEvent, now)

UpdateEvent(evs, id, userId, updates) ==
    IF backend = "db" THEN DbUpdateEvent(evs, id, userId, updates, now)
    ELSE MemUpdateEvent(evs, id, userId, updates, now)

DeleteEvent(evs, rems, id, userId) ==
    IF backend = "db" THEN DbDeleteEvent(evs, rems, id, userId)
    ELSE MemDeleteEvent(evs, rems, id, userId)

GetEventReminders(rems, eventId) ==
    IF backend = "db" THEN DbGetEventReminders(rems, eventId)
    ELSE {MemGetEventReminders(rems, eventId)}

CreateReminder(rems, evs, id, insertReminder) ==
    IF backend = "db" THEN DbCreateReminder(rems, evs, id, insertReminder)
    ELSE MemCreateReminder(rems, evs, id, insertReminder)

GetEventCountsByCategory(evs, userId) ==
    IF backend = "db" THEN DbGetEventCountsByCategory(evs, userId)
    ELSE MemGetEventCountsByCategory(evs, userId)

\* ------------------------------------------------- validation (schema.ts)
InvalidDate == -2

InsertEventKeysWithIdentity ==
    {"id", "userId", "title", "description", "startDate", "endDate",
     "category", "isRecurring", "recurringPattern", "recurringEndDate",
     "encryptedData", "createdAt"}

InsertEventKeys ==
    {"title", "description", "startDate", "endDate", "category",
     "isRecurring", "recurringPattern", "recurringEndDate", "encryptedData"}

DateKeys == {"startDate", "endDate", "recurringEndDate"}

\* zod drops the keys the schema does not name
Strip(body, keys) == [k \in DOMAIN body \cap keys |-> body[k]]

\* insertEventSchema.partial(): every key optional, a present date must
\* coerce to a valid Date
EventUpdateOk(body) ==
    \A k \in DOMAIN body \cap DateKeys : body[k] # InvalidDate

\* insertEventSchema: title and startDate are required, and so are the keys
\* endDate and recurringEndDate, which `.extend` redeclares as
\* z.coerce.date().nullable() without .optional()
InsertEventOk(body) ==
    /\ {"title", "startDate", "endDate", "recurringEndDate"} \subseteq DOMAIN body
    /\ body["startDate"] # NullDate
    /\ EventUpdateOk(body)

\* insertReminderSchema: eventId and minutesBefore are required
InsertReminderKeysKeepsFlag == {"eventId", "minutesBefore", "isTriggered"}

InsertReminderKeys == {"eventId", "minutesBefore"}

InsertReminderOk(body) == InsertReminderKeys \subseteq DOMAIN body

\* ------------------------------------------------------------- requests
Idle == [kind |-> "idle"]

Msg(m) == [message |-> m]

\* req.headers.authorization?.replace('Bearer ', ''): an absent header gives
\* undefined, otherwise what is left of the header once the scheme is cut
EmptyToken == -1

SessionTokenOf(header) ==
    IF IsDefined(header) THEN Some(Get(header).token) ELSE Undefined

\* !sessionToken
NoToken(t) == ~IsDefined(t) \/ Get(t) = EmptyToken

IssuedTokens == 1..nextToken

PresentableTokens == IssuedTokens \cup {BogusToken, EmptyToken}

Headers ==
    {Undefined} \cup
    {Some([scheme |-> "Bearer ", token |-> t]) : t \in PresentableTokens}

PresentableEventIds == (1..nextEventId) \cup {NoId}

InFlight(kinds) == Cardinality({c \in Clients : req[c].kind \in kinds})

Respond(c, r, status, body) ==
    /\ resp' = [req |-> r, status |-> status, body |-> body]
    /\ req' = [req EXCEPT ![c] = Idle]

PublicUser(user) ==
    [id |-> user.id, username |-> user.username,
     encryptionKey |-> user.encryptionKey]

\* ------------------------------------------------ POST /api/auth/register
RegisterBodies ==
    [username : Usernames \cup {ShortUsername}, password : {"Secret123!"},
     recoveryKey : {"alpha-bravo"}]

\* arrival: registerSchema.parse, then getUserByUsername
Register(c, bodies) ==
    /\ req[c] = Idle
    /\ Len(users) + InFlight({"register"}) < MaxUsers
    /\ nextToken + InFlight({"register", "login"}) < MaxTokens
    /\ \E body \in bodies :
        LET r == [kind |-> "register", pc |-> "createUser", body |-> body]
        IN  IF ~RegisterSchemaOk(body)
            THEN Respond(c, r, 400, Msg("Invalid input"))
            ELSE IF IsDefined(GetUserByUsername(body.username))
            THEN Respond(c, r, 400, Msg("Username already exists"))
            ELSE /\ req' = [req EXCEPT ![c] = r]
                 /\ UNCHANGED resp
    /\ UNCHANGED << backend, now, storeVars,
                    deletedTokens, deletedEvents, registered, clientVars >>

\* after `await bcrypt.hash`: the encryption key is drawn and createUser runs
RegisterCreateUser(c) ==
    /\ req[c].kind = "register" /\ req[c].pc = "createUser"
    /\ LET r == req[c]
           res == CreateUser([username |-> r.body.username,
                              password |-> Hash(r.body.password),
                              recoveryKey |-> r.body.recoveryKey,
                              encryptionKey |-> Len(users) + 1])
       IN  IF res.ok
           THEN /\ users' = res.users
                /\ req' = [req EXCEPT ![c] =
                             [r EXCEPT !.pc = "createSession"]
                                @@ [user |-> Get(res.user)]]
                /\ UNCHANGED resp
           ELSE /\ Respond(c, r, 500, Msg("Internal server error"))
                /\ UNCHANGED users
    /\ UNCHANGED << backend, now, sessions, nextToken, events, nextEventId,
                    reminders, nextReminderId,
                    deletedTokens, deletedEvents, registered, clientVars >>

\* after `await storage.createUser`: the token is drawn, createSession runs
\* and the response is sent
RegisterCreateSession(c) ==
    /\ req[c].kind = "register" /\ req[c].pc = "createSession"
    /\ LET r == req[c]
           sessionToken == nextToken + 1
           body == [user |-> PublicUser(r.user), sessionToken |-> sessionToken]
       IN  /\ nextToken' = sessionToken
           /\ sessions' = CreateSession([userId |-> r.user.id,
                                         sessionToken |-> sessionToken,
                                         expiresAt |-> now + SessionLifetime])
           /\ Respond(c, r, 200, body)
           /\ registered' = registered \cup {body}
    /\ UNCHANGED << backend, now, users, events, nextEventId,
                    reminders, nextReminderId, deletedTokens, deletedEvents,
                    clientVars >>

\* `await storage.createSession` rejects (the database refuses or loses the
\* statement): the catch block answers 500; createUser has run, and nothing
\* undoes it
RegisterCreateSessionFails(c) ==
    /\ req[c].kind = "register" /\ req[c].pc = "createSession"
    /\ backend = "db"
    /\ Respond(c, req[c], 500, Msg("Internal server error"))
    /\ UNCHANGED << backend, now, storeVars,
                    deletedTokens, deletedEvents, registered, clientVars >>

\* --------------------------------------------------- POST /api/auth/login
LoginBodies ==
    [username : Usernames \cup {EmptyString}, password : Passwords]

\* arrival: loginSchema.parse, then getUserByUsername
Login(c, bodies) ==
    /\ req[c] = Idle
    /\ nextToken + InFlight({"register", "login"}) < MaxTokens
    /\ \E body \in bodies :
        LET r == [kind |-> "login", pc |-> "compare", body |-> body]
            user == GetUserByUsername(body.username)
        IN  IF ~LoginSchemaOk(body)
            THEN Respond(c, r, 400, Msg("Invalid input"))
            ELSE IF ~IsDefined(user)
            THEN Respond(c, r, 401, Msg("Invalid credentials"))
            ELSE /\ req' = [req EXCEPT ![c] = r @@ [user |-> Get(user)]]
                 /\ UNCHANGED resp
    /\ UNCHANGED << backend, now, storeVars,
                    deletedTokens, deletedEvents, registered, clientVars >>

\* after `await bcrypt.compare`
LoginCompare(c) ==
    /\ req[c].kind = "login" /\ req[c].pc = "compare"
    /\ LET r == req[c]
           sessionToken == nextToken + 1
       IN  IF ~Compare(r.body.password, r.user.password)
           THEN /\ Respond(c, r, 401, Msg("Invalid credentials"))
                /\ UNCHANGED << sessions, nextToken >>
           ELSE /\ nextToken' = sessionToken
                /\ sessions' = CreateSession([userId |-> r.user.id,
                                     sessionToken |-> sessionToken,
                                     expiresAt |-> now + SessionLifetime])
                /\ Respond(c, r, 200, [user |-> PublicUser(r.user),
                                       sessionToken |-> sessionToken])
    /\ UNCHANGED << backend, now, users, events, nextEventId,
                    reminders, nextReminderId,
                    deletedTokens, deletedEvents, registered, clientVars >>

\* -------------------------------------------------- POST /api/auth/logout
Logout(c, headers) ==
    /\ req[c] = Idle
    /\ \E header \in headers :
        LET r == [kind |-> "logout", header |-> header]
            sessionToken == SessionTokenOf(header)
        IN  /\ IF NoToken(sessionToken)
               THEN UNCHANGED << sessions, deletedTokens >>
               ELSE /\ sessions' = DeleteSession(Get(sessionToken))
                    /\ deletedTokens' = deletedTokens \cup {Get(sessionToken)}
            /\ Respond(c, r, 200, Msg("Logged out successfully"))
    /\ UNCHANGED << backend, now, users, nextToken, events, nextEventId,
                    reminders, nextReminderId, deletedEvents, registered, clientVars >>

\* ------------------------------------------------------ authenticateUser
ValidEventBody ==
    [title |-> "Standup", startDate |-> 1, endDate |-> NullDate,
     category |-> "work", recurringEndDate |-> NullDate]

EventBodies ==
    { ValidEventBody,
      [title |-> "Standup", startDate |-> 1, category |-> "work"] }

EventUpdates ==
    { [title |-> "Retro"], [startDate |-> InvalidDate] }

ReminderBodies ==
    {[eventId |-> id, minutesBefore |-> 15] : id \in PresentableEventIds}
    \cup {[eventId |-> id] : id \in PresentableEventIds}

DateRanges ==
    { [start |-> Undefined, end |-> Undefined],
      [start |-> Some(0), end |-> Some(1)] }

\* the requests to the routes behind authenticateUser
AuthRequests ==
    {[kind |-> "me"], [kind |-> "stats"]}
    \cup {[kind |-> "getEvents", query |-> q] : q \in DateRanges}
    \cup {[kind |-> "postEvent", body |-> b] : b \in EventBodies}
    \cup {[kind |-> "putEvent", id |-> id, body |-> b] :
            id \in PresentableEventIds, b \in EventUpdates}
    \cup {[kind |-> "deleteEvent", id |-> id] : id \in PresentableEventIds}
    \cup {[kind |-> "getReminders", pc |-> "getEvent", eventId |-> id] :
            id \in PresentableEventIds}
    \cup {[kind |-> "postReminder", pc |-> "getEvent", body |-> b] :
            b \in ReminderBodies}

\* arrival of a request to an authenticated route: the middleware
AuthenticateUser(c, requests, headers) ==
    /\ req[c] = Idle
    /\ \E a \in requests, header \in headers :
        LET sessionToken == SessionTokenOf(header)
            r == a @@ [header |-> header]
        IN  /\ a.kind = "postEvent" =>
                   nextEventId + InFlight({"postEvent"}) < MaxEvents
            /\ a.kind = "postReminder" =>
                   nextReminderId + InFlight({"postReminder"}) < MaxReminders
            /\ IF NoToken(sessionToken)
               THEN Respond(c, r, 401, Msg("Authentication required"))
               ELSE LET session == GetSession(Get(sessionToken))
                    IN  IF ~IsDefined(session)
                        THEN Respond(c, r, 401,
                                     Msg("Invalid or expired session"))
                        ELSE /\ req' = [req EXCEPT ![c] =
                                          a @@ [userId |-> Get(session).userId,
                                                sessionToken |-> Get(sessionToken)]]
                             /\ UNCHANGED resp
    /\ UNCHANGED << backend, now, storeVars,
                    deletedTokens, deletedEvents, registered, clientVars >>

\* ------------------------------------------------------- GET /api/auth/me
GetMe(c) ==
    /\ req[c].kind = "me"
    /\ LET user == GetUser(req[c].userId)
       IN  IF ~IsDefined(user)
           THEN Respond(c, req[c], 404, Msg("User not found"))
           ELSE Respond(c, req[c], 200, PublicUser(Get(user)))
    /\ UNCHANGED << backend, now, storeVars,
                    deletedTokens, deletedEvents, registered, clientVars >>

\* -------------------------------------------------------- GET /api/events
\* start ? new Date(start as string) : undefined
EmptyQuery == -3

QueryDate(x) ==
    IF IsDefined(x) /\ Get(x) # EmptyQuery THEN x ELSE Undefined

GetEventsRoute(c) ==
    /\ req[c].kind = "getEvents"
    /\ \E rows \in GetEvents(events, req[c].userId,
                             QueryDate(req[c].query.start),
                             QueryDate(req[c].query.end)) :
          Respond(c, req[c], 200, [rows |-> rows])
    /\ UNCHANGED << backend, now, storeVars,
                    deletedTokens, deletedEvents, registered, clientVars >>

\* ------------------------------------------------------- POST /api/events
PostEvent(c) ==
    /\ req[c].kind = "postEvent"
    /\ LET r == req[c]
           data == Strip(r.body, InsertEventKeys)
           res == CreateEvent(events, nextEventId + 1,
                              [userId |-> r.userId] @@ data)
       IN  IF ~InsertEventOk(r.body)
           THEN /\ Respond(c, r, 400, Msg("Invalid input"))
                /\ UNCHANGED << events, nextEventId >>
           ELSE /\ events' = res.events
                /\ nextEventId' = nextEventId + 1
                /\ Respond(c, r, 201, res.event)
    /\ UNCHANGED << backend, now, users, sessions, nextToken,
                    reminders, nextReminderId,
                    deletedTokens, deletedEvents, registered, clientVars >>

\* ---------------------------------------------------- PUT /api/events/:id
\* what the handler does to the events and what it answers
PutEventHandler(evs, r) ==
    LET data == Strip(r.body, InsertEventKeys)
        res == UpdateEvent(evs, r.id, r.userId, data)
    IN  IF ~EventUpdateOk(r.body)
        THEN [events |-> evs, status |-> 400, body |-> Msg("Invalid input")]
        ELSE IF ~IsDefined(res.event)
        THEN [events |-> res.events, status |-> 404,
              body |-> Msg("Event not found")]
        ELSE [events |-> res.events, status |-> 200, body |-> Get(res.event)]

PutEvent(c) ==
    /\ req[c].kind = "putEvent"
    /\ LET out == PutEventHandler(events, req[c])
       IN  /\ events' = out.events
           /\ Respond(c, req[c], out.status, out.body)
    /\ UNCHANGED << backend, now, users, sessions, nextToken, nextEventId,
                    reminders, nextReminderId,
                    deletedTokens, deletedEvents, registered, clientVars >>

\* ------------------------------------------------- DELETE /api/events/:id
DeleteEventHandler(evs, rems, r) ==
    LET res == DeleteEvent(evs, rems, r.id, r.userId)
    IN  IF ~res.deleted
        THEN [events |-> res.events, reminders |-> res.reminders,
              status |-> 404, body |-> Msg("Event not found")]
        ELSE [events |-> res.events, reminders |-> res.reminders,
              status |-> 200, body |-> Msg("Event deleted successfully")]

DeleteEventRoute(c) ==
    /\ req[c].kind = "deleteEvent"
    /\ LET out == DeleteEventHandler(events, reminders, req[c])
       IN  /\ events' = out.events
           /\ reminders' = out.reminders
           /\ Respond(c, req[c], out.status, out.body)
           /\ deletedEvents' = IF out.status = 200
                               THEN deletedEvents \cup {req[c].id}
                               ELSE deletedEvents
    /\ UNCHANGED << backend, now, users, sessions, nextToken, nextEventId,
                    nextReminderId, deletedTokens, registered, clientVars >>

\* --------------------------------------- GET /api/events/:eventId/reminders
\* "Verify event belongs to user": the answer, or "next" to go on
GetRemindersVerify(evs, r) ==
    IF ~IsDefined(GetEvent(evs, r.eventId, r.userId))
    THEN [status |-> 404, body |-> Msg("Event not found")]
    ELSE [status |-> 0, body |-> Msg("next")]

GetRemindersGetEvent(c) ==
    /\ req[c].kind = "getReminders" /\ req[c].pc = "getEvent"
    /\ LET out == GetRemindersVerify(events, req[c])
       IN  IF out.status # 0
           THEN Respond(c, req[c], out.status, out.body)
           ELSE /\ req' = [req EXCEPT ![c].pc = "getEventReminders"]
                /\ UNCHANGED resp
    /\ UNCHANGED << backend, now, storeVars,
                    deletedTokens, deletedEvents, registered, clientVars >>

GetRemindersList(c) ==
    /\ req[c].kind = "getReminders" /\ req[c].pc = "getEventReminders"
    /\ \E rows \in GetEventReminders(reminders, req[c].eventId) :
          Respond(c, req[c], 200, [rows |-> rows])
    /\ UNCHANGED << backend, now, storeVars,
                    deletedTokens, deletedEvents, registered, clientVars >>

\* ---------------------------------------------------- POST /api/reminders
PostReminderVerify(evs, r) ==
    IF ~InsertReminderOk(r.body)
    THEN [status |-> 400, body |-> Msg("Invalid input")]
    ELSE IF ~IsDefined(GetEvent(evs, r.body.eventId, r.userId))
    THEN [status |-> 404, body |-> Msg("Event not found")]
    ELSE [status |-> 0, body |-> Msg("next")]

PostReminderGetEvent(c) ==
    /\ req[c].kind = "postReminder" /\ req[c].pc = "getEvent"
    /\ LET out == PostReminderVerify(events, req[c])
       IN  IF out.status # 0
           THEN Respond(c, req[c], out.status, out.body)
           ELSE /\ req' = [req EXCEPT ![c].pc = "createReminder"]
                /\ UNCHANGED resp
    /\ UNCHANGED << backend, now, storeVars,
                    deletedTokens, deletedEvents, registered, clientVars >>

PostReminderCreate(c) ==
    /\ req[c].kind = "postReminder" /\ req[c].pc = "createReminder"
    /\ LET r == req[c]
           res == CreateReminder(reminders, events, nextReminderId + 1,
                                 Strip(r.body, InsertReminderKeys))
       IN  IF res.ok
           THEN /\ reminders' = res.reminders
                /\ nextReminderId' = nextReminderId + 1
                /\ Respond(c, r, 201, Get(res.reminder))
           ELSE /\ Respond(c, r, 500, Msg("Failed to create reminder"))
                /\ UNCHANGED << reminders, nextReminderId >>
    /\ UNCHANGED << backend, now, users, sessions, nextToken,
                    events, nextEventId,
                    deletedTokens, deletedEvents, registered, clientVars >>

\* ----------------------------------------------- GET /api/stats/categories
GetStats(c) ==
    /\ req[c].kind = "stats"
    /\ Respond(c, req[c], 200,
               [counts |-> GetEventCountsByCategory(events, req[c].userId)])
    /\ UNCHANGED << backend, now, storeVars,
                    deletedTokens, deletedEvents, registered, clientVars >>

\* ------------------------------------------------------------ the clock
TickWithin(instants) ==
    /\ \E t \in instants : t > now /\ now' = t
    /\ UNCHANGED << backend, storeVars, req, resp,
                    deletedTokens, deletedEvents, registered, clientVars >>

Tick == TickWithin(Instants)

\* ------------------------------------------------------- specification
Init ==
    /\ backend \in {"db", "mem"}
    /\ now = 0
    /\ users = << >>
    /\ sessions = EmptyFcn
    /\ nextToken = 0
    /\ events = EmptyFcn
    /\ nextEventId = 0
    /\ reminders = EmptyFcn
    /\ nextReminderId = 0
    /\ req = [c \in Clients |-> Idle]
    /\ resp = [req |-> Idle, status |-> 0, body |-> Msg("")]
    /\ deletedTokens = {}
    /\ deletedEvents = {}
    /\ registered = {}
    /\ localStorage = Undefined
    /\ hooks = [i \in Components |-> Undefined]
    /\ me = Undefined
    /\ queryFn = Undefined
    /\ inflight = {}
    /\ rejected = {}
    /\ importPc = "idle"
    /\ importFile = << >>
    /\ importQueue = << >>
    /\ importPosted = << >>
    /\ importCreated = {}
    /\ importExisting = {}
    /\ importSkipped = 0

\* The whole server: every route, every input, the clock.
Next ==
    \/ Tick
    \/ \E c \in Clients :
        \/ Register(c, RegisterBodies)
        \/ RegisterCreateUser(c)
        \/ RegisterCreateSession(c)
        \/ RegisterCreateSessionFails(c)
        \/ Login(c, LoginBodies)
        \/ LoginCompare(c)
        \/ Logout(c, Headers)
        \/ AuthenticateUser(c, AuthRequests, Headers)
        \/ GetMe(c)
        \/ GetEventsRoute(c)
        \/ PostEvent(c)
        \/ PutEvent(c)
        \/ DeleteEventRoute(c)
        \/ GetRemindersGetEvent(c)
        \/ GetRemindersList(c)
        \/ PostReminderGetEvent(c)
        \/ PostReminderCreate(c)
        \/ GetStats(c)

Spec == Init /\ [][Next]_vars

\* The accounts and sessions of the server, with the clock: clients use the
\* /api/auth routes and, behind the middleware, GET /api/auth/me and
\* GET /api/stats.
AccountRequests == {[kind |-> "me"], [kind |-> "stats"]}

NextAuth ==
    \/ Tick
    \/ \E c \in Clients :
        \/ Register(c, RegisterBodies)
        \/ RegisterCreateUser(c)
        \/ RegisterCreateSession(c)
        \/ Login(c, LoginBodies)
        \/ LoginCompare(c)
        \/ Logout(c, Headers)
        \/ AuthenticateUser(c, AccountRequests, Headers)
        \/ GetMe(c)
        \/ GetStats(c)

SpecAuth == Init /\ [][NextAuth]_vars

\* The events and reminders of the server within one day: each client
\* registers its own account, stays logged in and sends the token register
\* gave it; it may name any event id that has been generated.
Account(c) == IF c = "c1" THEN "alice" ELSE "bob"

AccountBodies(c) ==
    {[username |-> Account(c), password |-> "Secret123!",
      recoveryKey |-> "alpha-bravo"]}

AccountHeaders(c) ==
    {Some([scheme |-> "Bearer ", token |-> b.sessionToken]) :
        b \in {x \in registered : x.user.username = Account(c)}}

EventRequests ==
    {[kind |-> "getEvents", query |-> [start |-> Undefined, end |-> Undefined]],
     [kind |-> "postEvent", body |-> ValidEventBody]}
    \cup {[kind |-> "putEvent", id |-> id, body |-> [title |-> "Retro"]] :
            id \in 1..nextEventId}
    \cup {[kind |-> "deleteEvent", id |-> id] : id \in 1..nextEventId}
    \cup {[kind |-> "getReminders", pc |-> "getEvent", eventId |-> id] :
            id \in 1..nextEventId}
    \cup {[kind |-> "postReminder", pc |-> "getEvent",
           body |-> [eventId |-> id, minutesBefore |-> 15]] :
            id \in 1..nextEventId}

NextEvents ==
    \E c \in Clients :
        \/ Register(c, AccountBodies(c))
        \/ RegisterCreateUser(c)
        \/ RegisterCreateSession(c)
        \/ AuthenticateUser(c, EventRequests, AccountHeaders(c))
        \/ GetEventsRoute(c)
        \/ PostEvent(c)
        \/ PutEvent(c)
        \/ DeleteEventRoute(c)
        \/ GetRemindersGetEvent(c)
        \/ GetRemindersList(c)
        \/ PostReminderGetEvent(c)
        \/ PostReminderCreate(c)

SpecEvents == Init /\ [][NextEvents]_vars

\* The same requests on a server whose database may fail the statement that
\* stores the session of a registration.
NextFaults ==
    \/ NextEvents
    \/ \E c \in Clients : RegisterCreateSessionFails(c)

SpecFaults == Init /\ [][NextFaults]_vars


\* The calendar of the server over two days: each client registers its own
\* account and sends the token register gave it to GET, POST, PUT and DELETE
\* /api/events and to GET /api/stats/categories, with bodies that leave
\* columns out, provide them all, or provide an empty string, and with
\* queries that give both bounds, one, or none.
MinimalEventBody ==
    [title |-> "Standup", startDate |-> 1, category |-> "work"]

FullEventBody ==
    [title |-> "Review", description |-> EmptyString, startDate |-> 2,
     endDate |-> 2, category |-> "health", isRecurring |-> TRUE,
     recurringPattern |-> "weekly", recurringEndDate |-> SessionLifetime,
     encryptedData |-> "0xab"]

CalendarBodies == {ValidEventBody, MinimalEventBody, FullEventBody}

\* the body of PUT /api/events/:id: two columns, and a key that
\* insertEventSchema omits
CalendarUpdates ==
    { [userId |-> MaxUsers, title |-> "Retro", startDate |-> 0] }

CalendarQueries ==
    { [start |-> Undefined, end |-> Undefined],
      [start |-> Some(2), end |-> Some(2)],
      [start |-> Some(2), end |-> Undefined],
      [start |-> Some(EmptyQuery), end |-> Some(InvalidDate)] }

\* the first client uses every route; the second one only adds events, which
\* are the events of another user to the first
CalendarRequests(c) ==
    IF c = "c1"
    THEN {[kind |-> "stats"]}
         \cup {[kind |-> "getEvents", query |-> q] : q \in CalendarQueries}
         \cup {[kind |-> "postEvent", body |-> b] : b \in CalendarBodies}
         \cup {[kind |-> "putEvent", id |-> id, body |-> b] :
                 id \in 1..nextEventId, b \in CalendarUpdates}
         \cup {[kind |-> "deleteEvent", id |-> id] : id \in 1..nextEventId}
    ELSE {[kind |-> "postEvent", body |-> ValidEventBody]}

CalendarDays == {0, 1}

\* the requests are sent one after the other: one is in flight at a time
OneAtATime(c) == \A d \in Clients \ {c} : req[d] = Idle

NextCalendar ==
    \/ TickWithin(CalendarDays)
    \/ \E c \in Clients :
        \/ OneAtATime(c) /\ Register(c, AccountBodies(c))
        \/ OneAtATime(c) /\ RegisterCreateUser(c)
        \/ OneAtATime(c) /\ RegisterCreateSession(c)
        \/ OneAtATime(c)
             /\ AuthenticateUser(c, CalendarRequests(c), AccountHeaders(c))
        \/ OneAtATime(c) /\ GetEventsRoute(c)
        \/ OneAtATime(c) /\ PostEvent(c)
        \/ OneAtATime(c) /\ PutEvent(c)
        \/ OneAtATime(c) /\ DeleteEventRoute(c)
        \/ OneAtATime(c) /\ GetStats(c)

SpecCalendar == Init /\ [][NextCalendar]_vars

\* Two tabs of one account writing to the same events: the first client
\* registers and creates events; both send PUT /api/events/:id for a stored
\* event with the token of the account, each with its own partial update,
\* and each puts the row it has loaded in the body under a key that
\* insertEventSchema does not name.
WriterUpdate(c) ==
    IF c = "c1" THEN [title |-> "Retro", startDate |-> 0]
    ELSE [title |-> "Sync", category |-> "health"]

WriterRequests(c) ==
    {[kind |-> "putEvent", id |-> id,
      body |-> [event |-> events[id]] @@ WriterUpdate(c)] : id \in DOMAIN events}
      \cup (IF c = "c1" THEN {[kind |-> "postEvent", body |-> ValidEventBody]}
            ELSE {})

NextWriters ==
    \/ TickWithin(CalendarDays)
    \/ \E c \in Clients :
        \/ c = "c1" /\ Register(c, AccountBodies(c))
        \/ RegisterCreateUser(c)
        \/ RegisterCreateSession(c)
        \/ AuthenticateUser(c, WriterRequests(c), AccountHeaders("c1"))
        \/ PostEvent(c)
        \/ PutEvent(c)

SpecWriters == Init /\ [][NextWriters]_vars

\* ====================================================== the browser
\* client/src/hooks/use-auth.ts and client/src/App.tsx.  Every component
\* that calls useAuth() has a sessionToken state of its own, initialised
\* from localStorage when it mounts; the query cache and the default options
\* of queryClient are shared.
MaxInflight == 2

MeKey == "/api/auth/me"

\* the queries of the components below AuthenticatedApp
AppKeys == {"/api/events", "/api/stats/categories"}

\* Router: the spinner while the first /api/auth/me is loading, LoginPage
\* when there is no user, AuthenticatedApp otherwise
View(hk, m, inf) ==
    IF ~IsDefined(m) /\ IsDefined(hk["Router"])
          /\ \E q \in inf : q[1] = MeKey
    THEN "Spinner"
    ELSE IF ~IsDefined(m) THEN "LoginPage"
    ELSE "AuthenticatedApp"

Rendered == View(hooks, me, inflight)

MountedIn(view) ==
    {"Router"} \cup (IF view = "LoginPage" THEN {"LoginPage"}
                     ELSE IF view = "AuthenticatedApp" THEN {"AppSidebar"}
                     ELSE {})

\* The render that follows an event handler which left localStorage, the
\* hook states, the cached user and the queries in flight as given.  A
\* component that mounts reads its state from localStorage; the effect of
\* useAuth runs in a component that mounted or whose sessionToken changed,
\* children before Router, and installs a queryFn only for a truthy token.
Commit(ls, hk, m, inf) ==
    LET before == MountedIn(Rendered)
        after == MountedIn(View(hk, m, inf))
        state == [i \in Components |->
                    IF i \notin after THEN Undefined
                    ELSE IF i \notin before THEN ls
                    ELSE hk[i]]
        ran == {i \in after : /\ IsDefined(state[i])
                              /\ (i \notin before \/ state[i] # hooks[i])}
    IN  /\ localStorage' = ls
        /\ hooks' = state
        /\ me' = m
        /\ inflight' = inf
        /\ queryFn' = IF "Router" \in ran
                      THEN Some(<< Get(state["Router"]), "Router" >>)
                      ELSE IF ran # {}
                      THEN LET i == CHOOSE j \in ran : TRUE
                           IN  Some(<< Get(state[i]), i >>)
                      ELSE queryFn

\* onSuccess of loginMutation and registerMutation, in LoginPage
OnAuthSuccess(userId, sessionToken) ==
    Commit(Some(sessionToken),
           [hooks EXCEPT !["LoginPage"] = Some(sessionToken)],
           Some(userId), inflight)

\* LoginPage: register().  The server runs POST /api/auth/register.
BrowserRegister ==
    /\ Rendered = "LoginPage"
    /\ Len(users) < MaxUsers
    /\ nextToken < MaxTokens
    /\ \E body \in AccountBodies("c1") :
        LET res == CreateUser([username |-> body.username,
                               password |-> Hash(body.password),
                               recoveryKey |-> body.recoveryKey,
                               encryptionKey |-> Len(users) + 1])
            sessionToken == nextToken + 1
        IN  /\ RegisterSchemaOk(body)
            /\ ~IsDefined(GetUserByUsername(body.username))
            /\ res.ok
            /\ users' = res.users
            /\ nextToken' = sessionToken
            /\ sessions' = CreateSession([userId |-> Get(res.user).id,
                                          sessionToken |-> sessionToken,
                                          expiresAt |-> now + SessionLifetime])
            /\ OnAuthSuccess(Get(res.user).id, sessionToken)
    /\ UNCHANGED << backend, now, events, nextEventId, reminders,
                    nextReminderId, req, resp, deletedTokens, deletedEvents,
                    registered, rejected, importVars >>

\* LoginPage: login() with the password of the account.  The server runs
\* POST /api/auth/login.
BrowserLogin ==
    /\ Rendered = "LoginPage"
    /\ nextToken < MaxTokens
    /\ \E body \in AccountBodies("c1") :
        LET user == GetUserByUsername(body.username)
            sessionToken == nextToken + 1
        IN  /\ IsDefined(user)
            /\ Compare(body.password, Get(user).password)
            /\ nextToken' = sessionToken
            /\ sessions' = CreateSession([userId |-> Get(user).id,
                                          sessionToken |-> sessionToken,
                                          expiresAt |-> now + SessionLifetime])
            /\ OnAuthSuccess(Get(user).id, sessionToken)
    /\ UNCHANGED << backend, now, users, events, nextEventId, reminders,
                    nextReminderId, req, resp, deletedTokens, deletedEvents,
                    registered, rejected, importVars >>

\* the keys of the queries that mounted components hold: /api/auth/me in a
\* component whose useAuth has a token (enabled: !!sessionToken)
ActiveKeys ==
    (IF \E i \in MountedIn(Rendered) : IsDefined(hooks[i])
     THEN {MeKey} ELSE {})
      \cup (IF Rendered = "AuthenticatedApp" THEN AppKeys ELSE {})

\* a mounted query fetches (mount, refetch, invalidation): the default
\* queryFn sends the token of its closure; the query in flight is the key,
\* the token sent and the component of the closure
QuerySend ==
    /\ IsDefined(queryFn)
    /\ Cardinality(inflight) < MaxInflight
    /\ \E key \in ActiveKeys :
        /\ ~\E q \in inflight : q[1] = key
        /\ Commit(localStorage, hooks, me,
                  inflight \cup {<< key, Get(queryFn)[1], Get(queryFn)[2] >>})
    /\ UNCHANGED << backend, now, storeVars, req, resp, deletedTokens,
                    deletedEvents, registered, rejected, importVars >>

\* the answer to a query arrives.  authenticateUser answers 401 unless the
\* token names a session that has not expired; on 401 the queryFn calls the
\* setSessionToken of its closure and removes the localStorage entry, and
\* the query fails; otherwise /api/auth/me fills the cache with the user.
QueryReceive ==
    /\ \E q \in inflight :
        LET session == GetSession(q[2])
            owner == q[3]
        IN  IF ~IsDefined(session)
            THEN /\ rejected' = rejected \cup {q[2]}
                 /\ Commit(Undefined, [hooks EXCEPT ![owner] = Undefined],
                           me, inflight \ {q})
            ELSE /\ UNCHANGED rejected
                 /\ Commit(localStorage, hooks,
                           IF q[1] = MeKey /\ IsDefined(GetUser(Get(session).userId))
                           THEN Some(Get(session).userId) ELSE me,
                           inflight \ {q})
    /\ UNCHANGED << backend, now, storeVars, req, resp, deletedTokens,
                    deletedEvents, registered, importVars >>

\* the Authorization header of apiRequest('POST', '/api/auth/logout'):
\* lib/queryClient.ts sends the stored token, or no header
ApiRequestHeaders ==
    {Undefined} \cup
    (IF IsDefined(localStorage)
     THEN {Some([scheme |-> "Bearer ", token |-> Get(localStorage)])}
     ELSE {})

\* AppSidebar: logout().  The request is sent only if the sidebar's
\* sessionToken is set; onSuccess clears that state, the localStorage entry
\* and the query cache.
BrowserLogout ==
    /\ Rendered = "AuthenticatedApp"
    /\ IF IsDefined(hooks["AppSidebar"])
       THEN \E header \in ApiRequestHeaders :
               LET sessionToken == SessionTokenOf(header)
               IN  IF NoToken(sessionToken)
                   THEN UNCHANGED << sessions, deletedTokens >>
                   ELSE /\ sessions' = DeleteSession(Get(sessionToken))
                        /\ deletedTokens' =
                               deletedTokens \cup {Get(sessionToken)}
       ELSE UNCHANGED << sessions, deletedTokens >>
    /\ Commit(Undefined, [hooks EXCEPT !["AppSidebar"] = Undefined],
              Undefined, {})
    /\ UNCHANGED << backend, now, users, nextToken, events, nextEventId,
                    reminders, nextReminderId, req, resp, deletedEvents,
                    registered, rejected, importVars >>

\* the page is loaded again: Router mounts with the stored token, its
\* effect installs the queryFn and /api/auth/me is fetched if there is one
Reload ==
    /\ hooks' = [i \in Components |->
                    IF i = "Router" THEN localStorage ELSE Undefined]
    /\ me' = Undefined
    /\ queryFn' = IF IsDefined(localStorage)
                  THEN Some(<< Get(localStorage), "Router" >>)
                  ELSE Undefined
    /\ inflight' = IF IsDefined(localStorage)
                   THEN {<< MeKey, Get(localStorage), "Router" >>}
                   ELSE {}
    /\ UNCHANGED << backend, now, storeVars, req, resp, deletedTokens,
                    deletedEvents, registered, localStorage, rejected,
                    importVars >>

\* One tab of the application over the lifetime of a session: the visitor
\* registers or logs in, the mounted components fetch, the session expires
\* on the server, the visitor logs out or loads the page again.
NextBrowser ==
    \/ Tick
    \/ BrowserRegister
    \/ BrowserLogin
    \/ QuerySend
    \/ QueryReceive
    \/ BrowserLogout
    \/ Reload

SpecBrowser == Init /\ [][NextBrowser]_vars


\* ===================================================================
\* Import of a file of events (client/src/pages/import-export.tsx)
\* ===================================================================
\* the number of events in an imported file
MaxFileLen == 2

\* String.prototype.toLowerCase on the titles of the model
ToLowerCase(s) ==
    CASE s = "Standup" -> "standup"
      [] s = "Retro" -> "retro"
      [] s = "Sync" -> "sync"
      [] OTHER -> s

\* an event as handleFileImport builds it from a row of the file
ImportedEvent(title, startDate) ==
    [title |-> title, description |-> NullStr, startDate |-> startDate,
     endDate |-> NullDate, category |-> "work", isRecurring |-> FALSE,
     recurringPattern |-> NullStr, recurringEndDate |-> NullDate,
     encryptedData |-> NullStr]

\* the events of the files: the title in two spellings, two start instants,
\* and a start that `new Date(event.startDate)` made an Invalid Date
ImportedEvents ==
    { ImportedEvent("Standup", 1), ImportedEvent("standup", 1),
      ImportedEvent("Standup", 2), ImportedEvent("Retro", InvalidDate) }

ImportFiles ==
    UNION { [1..n -> ImportedEvents] : n \in 1..MaxFileLen }

\* new Date(event.startDate).toISOString() throws a RangeError on an
\* Invalid Date
ToISOStringThrows(event) == event.startDate = InvalidDate

\* `${title.toLowerCase()}-${new Date(startDate).toISOString()}-${category}`
GetDedupeKey(event) ==
    << ToLowerCase(event.title), event.startDate, event.category >>

ExistingKeys(existingEvents) ==
    { GetDedupeKey(existingEvents[i]) : i \in DOMAIN existingEvents }

UniqueEventsKeepsAll(file, existingEvents) == file

\* events.filter(event => !existingKeys.has(getDedupeKey(event)))
UniqueEvents(file, existingEvents) ==
    SelectSeq(file, LAMBDA event :
                  GetDedupeKey(event) \notin ExistingKeys(existingEvents))

\* the session the server finds for a request of apiRequest
SessionOf(header) ==
    IF NoToken(SessionTokenOf(header)) THEN Undefined
    ELSE GetSession(Get(SessionTokenOf(header)))

\* the keys of the events the store holds for a user
KeysOf(userId) ==
    { GetDedupeKey(events[id]) :
        id \in {i \in DOMAIN events : events[i].userId = userId} }

\* mutationFn up to the loop: GET /api/events, the keys, the filter.  A
\* request the server refuses makes apiRequest throw, an Invalid Date makes
\* getDedupeKey throw: the mutation fails before any POST.
ImportStart ==
    /\ importPc \in {"idle", "done", "failed", "threw"}
    /\ Rendered = "AuthenticatedApp"
    /\ \E file \in ImportFiles, header \in ApiRequestHeaders :
        LET session == SessionOf(header)
        IN  /\ importFile' = file
            /\ importPosted' = << >>
            /\ importCreated' = {}
            /\ IF ~IsDefined(session)
               THEN /\ importPc' = "failed"
                    /\ importExisting' = {}
                    /\ importQueue' = << >>
                    /\ importSkipped' = 0
               ELSE \E existingEvents \in
                        GetEvents(events, Get(session).userId,
                                  Undefined, Undefined) :
                      /\ importExisting' = KeysOf(Get(session).userId)
                      /\ IF \E i \in DOMAIN file : ToISOStringThrows(file[i])
                         THEN /\ importPc' = "threw"
                              /\ importQueue' = << >>
                              /\ importSkipped' = 0
                         ELSE LET uniqueEvents ==
                                      UniqueEvents(file, existingEvents)
                              IN  /\ nextEventId + InFlight({"postEvent"})
                                       + Len(uniqueEvents) <= MaxEvents
                                  /\ importPc' = "post"
                                  /\ importQueue' = uniqueEvents
                                  /\ importSkipped' =
                                         Len(file) - Len(uniqueEvents)
    /\ UNCHANGED << backend, now, storeVars, req, resp, deletedTokens,
                    deletedEvents, registered, authVars >>

\* one turn of the loop: POST /api/events for the next unique event; a
\* refused request is caught and logged, a created event is pushed to results
ImportPost ==
    /\ importPc = "post"
    /\ importQueue # << >>
    /\ \E header \in ApiRequestHeaders :
        LET event == Head(importQueue)
            session == SessionOf(header)
            id == nextEventId + 1
        IN  /\ importPosted' = Append(importPosted, event)
            /\ importQueue' = Tail(importQueue)
            /\ IF ~IsDefined(session) \/ ~InsertEventOk(event)
               THEN UNCHANGED << events, nextEventId, importCreated >>
               ELSE /\ events' =
                          CreateEvent(events, id,
                              [userId |-> Get(session).userId]
                                  @@ Strip(event, InsertEventKeys)).events
                    /\ nextEventId' = id
                    /\ importCreated' = importCreated \cup {id}
    /\ UNCHANGED << backend, now, users, sessions, nextToken, reminders,
                    nextReminderId, req, resp, deletedTokens, deletedEvents,
                    registered, authVars, importPc, importFile,
                    importExisting, importSkipped >>

\* return { results, skipped }
ImportReturn ==
    /\ importPc = "post"
    /\ importQueue = << >>
    /\ importPc' = "done"
    /\ UNCHANGED << backend, now, storeVars, req, resp, deletedTokens,
                    deletedEvents, registered, authVars, importFile,
                    importQueue, importPosted, importCreated,
                    importExisting, importSkipped >>

\* the second account sends POST /api/events
OtherAccountPosts ==
    /\ nextEventId + InFlight({"postEvent"}) + Len(importQueue) < MaxEvents
    /\ AuthenticateUser("c2",
                        {[kind |-> "postEvent", body |-> ValidEventBody]},
                        AccountHeaders("c2"))

\* One visitor registers in the browser and imports files, again and again;
\* a second account, on another connection, creates events of its own in
\* between.
NextImport ==
    \/ BrowserRegister
    \/ ImportStart
    \/ ImportPost
    \/ ImportReturn
    \/ Register("c2", AccountBodies("c2"))
    \/ RegisterCreateUser("c2")
    \/ RegisterCreateSession("c2")
    \/ OtherAccountPosts
    \/ PostEvent("c2")

SpecImport == Init /\ [][NextImport]_vars


\* ===================================================================
\* The month view (client/src/components/calendar-grid.tsx)
\* ===================================================================
\* In this specification an instant is a number of half days: a day has a
\* midnight and a noon.  A month of the model is MonthDays days long.
InstantsPerDay == 2
MonthDays == 2
MaxMonth == 1

Months == 0..MaxMonth

\* date-fns startOfMonth, endOfMonth: the first and the last instant
StartOfMonth(m) == m * MonthDays * InstantsPerDay
EndOfMonth(m) == (m + 1) * MonthDays * InstantsPerDay - 1

\* format(date, 'yyyy-MM-dd'): the day, without the time of day
FormatDay(instant) == instant \div InstantsPerDay

\* new Date('yyyy-MM-dd'): the midnight at which the day starts
NewDate(day) == day * InstantsPerDay

\* the query of CalendarGrid for a month.  A query string stands in the
\* model for the instant that routes.ts:168-169 reads from it.
GridQuery(m) ==
    [start |-> Some(NewDate(FormatDay(StartOfMonth(m)))),
     end |-> Some(NewDate(FormatDay(EndOfMonth(m))))]

MonthInstants == StartOfMonth(0)..EndOfMonth(MaxMonth)

\* the first account looks at its months and adds events at any instant;
\* the second one adds events of its own
MonthRequests(c) ==
    IF c = "c1"
    THEN {[kind |-> "getEvents", query |-> GridQuery(m)] : m \in Months}
         \cup {[kind |-> "postEvent",
                body |-> [title |-> "Standup", startDate |-> t,
                          endDate |-> NullDate, category |-> "work",
                          recurringEndDate |-> NullDate]] :
                 t \in MonthInstants}
    ELSE {[kind |-> "postEvent", body |-> ValidEventBody]}

NextMonth ==
    \E c \in Clients :
        \/ OneAtATime(c) /\ Register(c, AccountBodies(c))
        \/ OneAtATime(c) /\ RegisterCreateUser(c)
        \/ OneAtATime(c) /\ RegisterCreateSession(c)
        \/ OneAtATime(c)
             /\ AuthenticateUser(c, MonthRequests(c), AccountHeaders(c))
        \/ OneAtATime(c) /\ GetEventsRoute(c)
        \/ OneAtATime(c) /\ PostEvent(c)

SpecMonth == Init /\ [][NextMonth]_vars

\* ===================================================================
\* The reminders, with bodies that name the trigger flag
\* ===================================================================
ReminderRequests ==
    {[kind |-> "postEvent", body |-> ValidEventBody]}
    \cup {[kind |-> "deleteEvent", id |-> id] : id \in 1..nextEventId}
    \cup {[kind |-> "getReminders", pc |-> "getEvent", eventId |-> id] :
            id \in 1..nextEventId}
    \cup {[kind |-> "postReminder", pc |-> "getEvent",
           body |-> [eventId |-> id, minutesBefore |-> 15]] :
            id \in 1..nextEventId}
    \cup {[kind |-> "postReminder", pc |-> "getEvent",
           body |-> [eventId |-> id, minutesBefore |-> 15,
                     isTriggered |-> TRUE]] :
            id \in 1..nextEventId}

NextReminders ==
    \E c \in Clients :
        \/ Register(c, AccountBodies(c))
        \/ RegisterCreateUser(c)
        \/ RegisterCreateSession(c)
        \/ AuthenticateUser(c, ReminderRequests, AccountHeaders(c))
        \/ PostEvent(c)
        \/ DeleteEventRoute(c)
        \/ GetRemindersGetEvent(c)
        \/ GetRemindersList(c)
        \/ PostReminderGetEvent(c)
        \/ PostReminderCreate(c)

SpecReminders == Init /\ [][NextReminders]_vars

\* ===================================================================
\* Updates whose body names the columns of identity
\* ===================================================================
\* bodies of PUT /api/events/:id that name an id, an owner and a creation
\* time besides a title
IdentityUpdates ==
    { [id |-> NoId, userId |-> u, title |-> "Retro",
       createdAt |-> SessionLifetime] : u \in 1..MaxUsers }

OwnerRequests ==
    {[kind |-> "postEvent", body |-> ValidEventBody]}
    \cup {[kind |-> "putEvent", id |-> id, body |-> b] :
            id \in 1..nextEventId, b \in IdentityUpdates}

NextOwners ==
    \/ TickWithin(CalendarDays)
    \/ \E c \in Clients :
        \/ Register(c, AccountBodies(c))
        \/ RegisterCreateUser(c)
        \/ RegisterCreateSession(c)
        \/ AuthenticateUser(c, OwnerRequests, AccountHeaders(c))
        \/ PostEvent(c)
        \/ PutEvent(c)

SpecOwners == Init /\ [][NextOwners]_vars

\* ===================================================================
\* Properties of the events and reminders (SpecEvents)
\* ===================================================================
Pc(r) == IF "pc" \in DOMAIN r THEN r.pc ELSE ""

Owned(id, userId) == id \in DOMAIN events /\ events[id].userId = userId

NotFound == [status |-> 404, body |-> Msg("Event not found")]

Answer(out) == [status |-> out.status, body |-> out.body]

RowIds(rows) == {rows[i].id : i \in 1..Len(rows)}

\* C1: an event is invisible and untouchable to every user but its owner:
\* whatever the store has reached, for an event id and a user u who does not
\* own it, getEvents(u, ...) does not contain the event, getEvent(id, u) is
\* absent, updateEvent(id, u, ...) returns absent and changes nothing, and
\* deleteEvent(id, u) returns false and removes nothing, in MemStorage and
\* in DatabaseStorage alike.
C1_OwnershipIsolation ==
    \A id \in DOMAIN events : \A u \in 0..MaxUsers :
        events[id].userId # u =>
            /\ MemGetEvent(events, id, u) = Undefined
            /\ DbGetEvent(events, id, u) = Undefined
            /\ \A upd \in {[title |-> "Retro"], [category |-> "health"]} :
                /\ MemUpdateEvent(events, id, u, upd, now)
                       = [events |-> events, event |-> Undefined]
                /\ DbUpdateEvent(events, id, u, upd, now)
                       = [events |-> events, event |-> Undefined]
            /\ MemDeleteEvent(events, reminders, id, u)
                   = [events |-> events, reminders |-> reminders,
                      deleted |-> FALSE]
            /\ DbDeleteEvent(events, reminders, id, u)
                   = [events |-> events, reminders |-> reminders,
                      deleted |-> FALSE]
            /\ \A q \in DateRanges :
                /\ id \notin RowIds(MemGetEvents(events, u, q.start, q.end))
                /\ \A rows \in DbGetEvents(events, u, q.start, q.end) :
                       id \notin RowIds(rows)

\* a user has asked to update an event that exists and belongs to another
\* user, and was answered 404
C1_Witness ==
    /\ resp.req.kind = "putEvent"
    /\ resp.status = 404
    /\ resp.req.id \in DOMAIN events
    /\ events[resp.req.id].userId # resp.req.userId
    /\ events[resp.req.id].title = "Standup"

\* C2: for PUT and DELETE /api/events/:id, GET /api/events/:eventId/reminders
\* and POST /api/reminders, the answer (status and body) to a user who names
\* an event of another user is the answer the same request gets from the
\* store without that event: 404 "Event not found" for a well-formed body.
C2_NotOwnedIsNotFound ==
    \A id \in DOMAIN events : \A u \in 0..MaxUsers :
        events[id].userId # u =>
            LET gone == Remove(events, id)
                put(b) == [kind |-> "putEvent", id |-> id, body |-> b,
                           userId |-> u]
                del == [kind |-> "deleteEvent", id |-> id, userId |-> u]
                get == [kind |-> "getReminders", eventId |-> id,
                        userId |-> u]
                post(b) == [kind |-> "postReminder", body |-> b,
                            userId |-> u]
            IN  /\ \A b \in EventUpdates :
                    /\ Answer(PutEventHandler(events, put(b)))
                           = Answer(PutEventHandler(gone, put(b)))
                    /\ EventUpdateOk(b) =>
                           Answer(PutEventHandler(events, put(b))) = NotFound
                /\ Answer(DeleteEventHandler(events, reminders, del))
                       = Answer(DeleteEventHandler(gone, reminders, del))
                /\ Answer(DeleteEventHandler(events, reminders, del))
                       = NotFound
                /\ GetRemindersVerify(events, get)
                       = GetRemindersVerify(gone, get)
                /\ GetRemindersVerify(events, get) = NotFound
                /\ \A b \in {[eventId |-> id, minutesBefore |-> 15],
                             [eventId |-> id]} :
                    /\ PostReminderVerify(events, post(b))
                           = PostReminderVerify(gone, post(b))
                    /\ InsertReminderOk(b) =>
                           PostReminderVerify(events, post(b)) = NotFound

\* a user has asked to delete an event that exists and belongs to another
\* user, and was answered
C2_Witness ==
    /\ resp.req.kind = "deleteEvent"
    /\ resp.req.id \in DOMAIN events
    /\ events[resp.req.id].userId # resp.req.userId
    /\ Answer(resp) = NotFound

\* C5: the reminder routes are gated by the ownership check.  A request to
\* POST /api/reminders goes on to createReminder, and a request to GET
\* /api/events/:eventId/reminders goes on to read the reminders, only from
\* a check at which the event exists and belongs to the authenticated user;
\* a check that fails answers 404 "Event not found" and leaves the
\* reminders alone; a reminder is stored only by a request that passed the
\* check; and a check on the id of a deleted event always answers 404.
C5_RemindersGated ==
    [][ /\ \A c \in Clients :
            /\ (req'[c] # req[c] /\ Pc(req'[c]) = "createReminder") =>
                   /\ req[c].kind = "postReminder" /\ Pc(req[c]) = "getEvent"
                   /\ Owned(req[c].body.eventId, req[c].userId)
            /\ (req'[c] # req[c] /\ Pc(req'[c]) = "getEventReminders") =>
                   /\ req[c].kind = "getReminders" /\ Pc(req[c]) = "getEvent"
                   /\ Owned(req[c].eventId, req[c].userId)
            /\ (req'[c] # req[c] /\ req[c].kind = "postReminder"
                  /\ Pc(req[c]) = "getEvent" /\ InsertReminderOk(req[c].body)
                  /\ ~Owned(req[c].body.eventId, req[c].userId)) =>
                   /\ req'[c] = Idle
                   /\ resp' = [req |-> req[c]] @@ NotFound
                   /\ reminders' = reminders
            /\ (req'[c] # req[c] /\ req[c].kind = "getReminders"
                  /\ Pc(req[c]) = "getEvent"
                  /\ (~Owned(req[c].eventId, req[c].userId)
                        \/ req[c].eventId \in deletedEvents)) =>
                   /\ req'[c] = Idle
                   /\ resp' = [req |-> req[c]] @@ NotFound
                   /\ reminders' = reminders
        /\ \A id \in DOMAIN reminders' \ DOMAIN reminders :
              \E c \in Clients :
                 /\ req[c].kind = "postReminder"
                 /\ Pc(req[c]) = "createReminder"
                 /\ req'[c] = Idle
                 /\ reminders'[id].eventId = req[c].body.eventId
        /\ (resp' # resp /\ resp'.req.kind = "getReminders"
              /\ resp'.status = 200) =>
              \E c \in Clients :
                 /\ req[c] = resp'.req
                 /\ Pc(req[c]) = "getEventReminders"
      ]_vars

\* the owner has deleted an event, a reminder row of it is still stored, and
\* the owner's request for its reminders was answered 404
C5_Witness ==
    /\ resp.req.kind = "getReminders"
    /\ resp.req.eventId \in deletedEvents
    /\ Answer(resp) = NotFound
    /\ \E id \in DOMAIN reminders : reminders[id].eventId = resp.req.eventId


\* ===================================================================
\* Properties of the accounts and sessions (SpecAuth)
\* ===================================================================
GatedKinds ==
    {"me", "stats", "getEvents", "postEvent", "putEvent", "deleteEvent",
     "getReminders", "postReminder"}

CheckTimes == 0..(2 * SessionLifetime + 1)

\* the token a request presented in its Authorization header
Presented(r) == SessionTokenOf(r.header)

\* a step in which the request r was answered on arrival
AnsweredOnArrival(kinds) ==
    /\ req' = req
    /\ resp' # resp
    /\ resp'.req.kind \in kinds

\* C3: getSession never returns a session that expired before the check,
\* in either backend and at any check time; and a token that deleteSession
\* has been called with is absent for getSession in every later state, at
\* any check time.
C3_SessionValidity ==
    /\ \A tok \in PresentableTokens \cup DOMAIN sessions : \A t \in CheckTimes :
        /\ IsDefined(MemGetSession(sessions, tok, t)) =>
               Get(MemGetSession(sessions, tok, t)).expiresAt >= t
        /\ IsDefined(DbGetSession(sessions, tok, t)) =>
               Get(DbGetSession(sessions, tok, t)).expiresAt >= t
    /\ \A tok \in deletedTokens : \A t \in CheckTimes :
        /\ MemGetSession(sessions, tok, t) = Undefined
        /\ DbGetSession(sessions, tok, t) = Undefined
        /\ GetSession(tok) = Undefined

\* a session was logged out, another one has expired and is still stored,
\* and a request presenting the logged-out token was refused
C3_Witness ==
    /\ resp.req.kind = "me"
    /\ resp.status = 401
    /\ resp.body = Msg("Invalid or expired session")
    /\ Get(Presented(resp.req)) \in deletedTokens \cap IssuedTokens
    /\ \E tok \in DOMAIN sessions : sessions[tok].expiresAt < now

\* C4: the middleware.  A request to a route behind authenticateUser is
\* handed to its handler only if the token it presents names a stored
\* session that has not expired, and then with that session's userId, which
\* the request keeps; a request is refused only if it presents no token or a
\* token that names no stored session or a session at or past its expiry;
\* and a refusal is a 401 that leaves the store as it was.
C4_Middleware ==
    [][ /\ \A c \in Clients :
            /\ (req[c] = Idle /\ req'[c].kind \in GatedKinds) =>
                   LET tok == req'[c].sessionToken
                   IN  /\ tok \in DOMAIN sessions
                       /\ sessions[tok].expiresAt >= now
                       /\ req'[c].userId = sessions[tok].userId
            /\ (req[c].kind \in GatedKinds /\ req'[c] # Idle) =>
                   /\ req'[c].userId = req[c].userId
                   /\ req'[c].sessionToken = req[c].sessionToken
        /\ AnsweredOnArrival(GatedKinds) =>
               LET tok == Presented(resp'.req)
               IN  /\ resp'.status = 401
                   /\ storeVars' = storeVars
                   /\ \/ NoToken(tok)
                      \/ Get(tok) \notin DOMAIN sessions
                      \/ sessions[Get(tok)].expiresAt <= now
                   /\ NoToken(tok) =>
                          resp'.body = Msg("Authentication required")
      ]_vars

\* a request that presented the token of an expired session was refused
C4_Witness ==
    /\ resp.req.kind \in GatedKinds
    /\ resp.status = 401
    /\ "header" \in DOMAIN resp.req
    /\ ~NoToken(Presented(resp.req))
    /\ Get(Presented(resp.req)) \in DOMAIN sessions
    /\ sessions[Get(Presented(resp.req))].expiresAt < now
    /\ \E c \in Clients : req[c].kind = "stats"

\* C6: no two stored users have the same username.
C6_UsernamesUnique ==
    \A i, j \in 1..Len(users) :
        users[i].username = users[j].username => i = j

\* C7: once a registration for a username has been answered 200, with the
\* user and its session stored, a later valid registration for that username
\* goes no further than the lookup: it is answered 400 "Username already
\* exists" and the store is left as it was.  No step changes a stored user.
C7_SequentialDuplicate ==
    [][ /\ \A c \in Clients :
            (req[c] = Idle /\ req'[c].kind = "register") =>
                ~\E b \in registered :
                    b.user.username = req'[c].body.username
        /\ (/\ AnsweredOnArrival({"register"})
            /\ RegisterSchemaOk(resp'.req.body)
            /\ \E b \in registered :
                   b.user.username = resp'.req.body.username) =>
               /\ resp'.status = 400
               /\ resp'.body = Msg("Username already exists")
               /\ storeVars' = storeVars
        /\ \A b \in registered' \ registered :
               /\ resp'.status = 200 /\ resp'.body = b
               /\ b.user.id \in 1..Len(users')
               /\ PublicUser(users'[b.user.id]) = b.user
               /\ b.sessionToken \in DOMAIN sessions'
               /\ sessions'[b.sessionToken].userId = b.user.id
        /\ \A i \in 1..Len(users) : users'[i] = users[i]
      ]_vars

\* a registration has succeeded and a later one for the same username was
\* refused as a duplicate; one user is stored
C7_Witness ==
    /\ resp.req.kind = "register"
    /\ resp.status = 400
    /\ resp.body = Msg("Username already exists")
    /\ \E b \in registered : b.user.username = resp.req.body.username
    /\ Len(users) = 1

\* C8: the token a successful registration returns names, from the moment
\* of the response, a live session of the user it returns; as long as that
\* session is stored and has not expired, getSession gives it in both
\* backends and getUser gives the user register returned; the session stays
\* stored until deleteSession is called with its token; and GET
\* /api/auth/me answers a request accepted with that token with 200 and the
\* id, username and encryptionKey that register returned.
C8_RegisterThenMe ==
    [][ /\ \A b \in registered' \ registered :
               /\ b.sessionToken \in DOMAIN sessions'
               /\ sessions'[b.sessionToken].expiresAt > now'
        /\ \A b \in registered' :
               LET tok == b.sessionToken
               IN  /\ tok \notin deletedTokens' => tok \in DOMAIN sessions'
                   /\ (tok \in DOMAIN sessions'
                         /\ now' < sessions'[tok].expiresAt) =>
                          /\ sessions'[tok].userId = b.user.id
                          /\ MemGetSession(sessions', tok, now')
                                 = Some(sessions'[tok])
                          /\ DbGetSession(sessions', tok, now')
                                 = Some(sessions'[tok])
                          /\ IsDefined(MemGetUser(users', b.user.id))
                          /\ PublicUser(Get(MemGetUser(users', b.user.id)))
                                 = b.user
                          /\ IsDefined(DbGetUser(users', b.user.id))
                          /\ PublicUser(Get(DbGetUser(users', b.user.id)))
                                 = b.user
                   /\ (/\ resp' # resp
                       /\ resp'.req.kind = "me"
                       /\ "sessionToken" \in DOMAIN resp'.req
                       /\ resp'.req.sessionToken = tok) =>
                          /\ resp'.status = 200
                          /\ resp'.body = b.user
      ]_vars

\* two users have registered and GET /api/auth/me, asked with the token the
\* second registration returned, has answered with the second user
C8_Witness ==
    /\ resp.req.kind = "me"
    /\ resp.status = 200
    /\ \E b \in registered :
          /\ b.sessionToken = resp.req.sessionToken
          /\ b.user = resp.body
          /\ b.user.id = 2

\* C9: a schema-valid login that fails is answered 401 "Invalid
\* credentials", whether the username is unknown (on arrival) or the
\* password does not match the stored hash (after the comparison), and
\* leaves the store as it was; a login goes on to the comparison only when
\* the username exists; and a login stores a session only for a stored user
\* of that username whose hash is the hash of the password sent.
C9_LoginUniform ==
    [][ /\ \A c \in Clients :
            /\ (req[c] = Idle /\ req'[c].kind = "login") =>
                   \E i \in 1..Len(users) :
                       /\ users[i].username = req'[c].body.username
                       /\ req'[c].user = users[i]
            /\ (/\ req[c].kind = "login" /\ req'[c] = Idle
                /\ req[c].user.password # Hash(req[c].body.password)) =>
                   /\ resp' = [req |-> req[c], status |-> 401,
                               body |-> Msg("Invalid credentials")]
                   /\ storeVars' = storeVars
        /\ (/\ AnsweredOnArrival({"login"})
            /\ LoginSchemaOk(resp'.req.body)) =>
               /\ resp'.status = 401
               /\ resp'.body = Msg("Invalid credentials")
               /\ storeVars' = storeVars
               /\ ~\E i \in 1..Len(users) :
                      users[i].username = resp'.req.body.username
        /\ \A tok \in DOMAIN sessions' \ DOMAIN sessions :
               \E c \in Clients :
                   /\ req[c].kind \in {"login", "register"}
                   /\ req'[c] = Idle
                   /\ req[c].kind = "login" =>
                          \E i \in 1..Len(users) :
                              /\ users[i].username = req[c].body.username
                              /\ users[i].password = Hash(req[c].body.password)
                              /\ sessions'[tok].userId = users[i].id
                              /\ resp'.status = 200
      ]_vars

\* a login for a stored username with a password that does not match the
\* stored hash was refused after the comparison
C9_Witness ==
    /\ resp.req.kind = "login"
    /\ "user" \in DOMAIN resp.req
    /\ resp.req.user.password # Hash(resp.req.body.password)
    /\ resp.status = 401
    /\ resp.body = Msg("Invalid credentials")
    /\ \E i \in 1..Len(users) : users[i].username = resp.req.body.username

\* C10: for a stored session and a check time, the two backends return the
\* same result unless the check time is the session's expiresAt, where
\* DatabaseStorage returns the session and MemStorage returns absent; for a
\* token that names no stored session both return absent.
C10_ExpiryBoundary ==
    /\ \A tok \in DOMAIN sessions : \A t \in CheckTimes :
        IF t = sessions[tok].expiresAt
        THEN /\ DbGetSession(sessions, tok, t) = Some(sessions[tok])
             /\ MemGetSession(sessions, tok, t) = Undefined
        ELSE DbGetSession(sessions, tok, t) = MemGetSession(sessions, tok, t)
    /\ \A tok \in PresentableTokens \ DOMAIN sessions : \A t \in CheckTimes :
        /\ DbGetSession(sessions, tok, t) = Undefined
        /\ MemGetSession(sessions, tok, t) = Undefined

\* under MemStorage a request presenting a stored session's token at the
\* very instant of its expiry was refused
C10_Witness ==
    /\ backend = "mem"
    /\ resp.req.kind = "me"
    /\ resp.status = 401
    /\ ~NoToken(Presented(resp.req))
    /\ Get(Presented(resp.req)) \in DOMAIN sessions
    /\ sessions[Get(Presented(resp.req))].expiresAt = now

\* ===================================================================
\* Properties of the calendar (SpecCalendar)
\* ===================================================================
\* a step in which a handler behind the middleware answered a request
Handled(kind) ==
    /\ resp' # resp
    /\ resp'.req.kind = kind
    /\ "userId" \in DOMAIN resp'.req

\* the number of rows of a listing that carry the id
Occurrences(rows, id) == Cardinality({i \in 1..Len(rows) : rows[i].id = id})

\* C11: when POST /api/events has stored an event (createEvent), getEvent
\* with the returned id and the owner returns a row that equals the input on
\* every column the input provides, under an id that was not in use, with
\* createdAt and updatedAt set to the time of the call.
C11_CreateGetRoundTrip ==
    [][ (Handled("postEvent") /\ resp'.status = 201) =>
            LET body == Strip(resp'.req.body, InsertEventKeys)
                id == resp'.body.id
                got == GetEvent(events', id, resp'.req.userId)
            IN  /\ id \notin DOMAIN events
                /\ IsDefined(got)
                /\ Get(got) = resp'.body
                /\ \A k \in DOMAIN body : Get(got)[k] = body[k]
                /\ Get(got).createdAt = now
                /\ Get(got).updatedAt = now
      ]_vars

\* C12: POST /api/events with a body of title, startDate and category only
\* is answered 201 with the stored event, of the category given and with
\* isRecurring false; and the listing of a user's events contains each
\* stored event of the user exactly once.
C12_MinimalCreate ==
    /\ (/\ resp.req.kind = "postEvent"
        /\ "userId" \in DOMAIN resp.req
        /\ resp.req.body = MinimalEventBody) =>
           /\ resp.status = 201
           /\ resp.body.category = "work"
           /\ resp.body.isRecurring = FALSE
    /\ \A id \in DOMAIN events :
           \A rows \in GetEvents(events, events[id].userId,
                                 Undefined, Undefined) :
               Occurrences(rows, id) = 1

\* the dates given as bounds: the start dates that stored events have
DateValues == {0, 1, 2}

OwnedBy(u) == {i \in DOMAIN events : events[i].userId = u}

\* rows lists exactly the stored events ids, each once, by startDate
ListsExactly(rows, ids) ==
    /\ Len(rows) = Cardinality(ids)
    /\ \A id \in ids : \E i \in 1..Len(rows) : rows[i] = events[id]
    /\ \A i, j \in 1..Len(rows) :
           i < j => rows[i].startDate <= rows[j].startDate

\* C13: in every reachable store, for every user and all bounds start and
\* end, getEvents(user, start, end) returns exactly the user's events with
\* start <= startDate <= end, each once, in non-decreasing startDate
\* order, and getEvents(user) returns all the user's events in that order,
\* in MemStorage and in every result DatabaseStorage may give.
C13_RangeListing ==
    \A u \in 0..MaxUsers :
        /\ ListsExactly(MemGetEvents(events, u, Undefined, Undefined),
                        OwnedBy(u))
        /\ DbGetEvents(events, u, Undefined, Undefined) # {}
        /\ \A rows \in DbGetEvents(events, u, Undefined, Undefined) :
               ListsExactly(rows, OwnedBy(u))
        /\ \A s, e \in DateValues :
               LET within == {i \in OwnedBy(u) :
                                 /\ s <= events[i].startDate
                                 /\ events[i].startDate <= e}
               IN  /\ ListsExactly(MemGetEvents(events, u, Some(s), Some(e)),
                                   within)
                   /\ DbGetEvents(events, u, Some(s), Some(e)) # {}
                   /\ \A rows \in DbGetEvents(events, u, Some(s), Some(e)) :
                          ListsExactly(rows, within)

\* GET /api/events?start=2&end=2 has listed a user's event that starts on
\* day 2 and left out an event of the same user that starts earlier
C13_Witness ==
    /\ resp.req.kind = "getEvents"
    /\ resp.status = 200
    /\ resp.req.query = [start |-> Some(2), end |-> Some(2)]
    /\ Len(resp.body.rows) = 1
    /\ resp.body.rows[1].startDate = 2
    /\ \E id \in OwnedBy(resp.req.userId) : events[id].startDate < 2
    /\ \E id \in OwnedBy(resp.req.userId) : events[id] = resp.body.rows[1]

\* C14: with exactly one bound given, getEvents returns what it returns
\* with no bound, in both backends; and GET /api/events with only ?start or
\* only ?end is answered 200 with a listing that getEvents gives for no
\* bound at all.
C14_OneBoundIsNoBound ==
    [][ /\ \A u \in 0..MaxUsers : \A d \in DateValues :
            /\ MemGetEvents(events, u, Some(d), Undefined)
                   = MemGetEvents(events, u, Undefined, Undefined)
            /\ MemGetEvents(events, u, Undefined, Some(d))
                   = MemGetEvents(events, u, Undefined, Undefined)
            /\ DbGetEvents(events, u, Some(d), Undefined)
                   = DbGetEvents(events, u, Undefined, Undefined)
            /\ DbGetEvents(events, u, Undefined, Some(d))
                   = DbGetEvents(events, u, Undefined, Undefined)
        /\ (/\ Handled("getEvents")
            /\ IsDefined(QueryDate(resp'.req.query.start))
                   # IsDefined(QueryDate(resp'.req.query.end))) =>
               /\ resp'.status = 200
               /\ resp'.body.rows \in GetEvents(events, resp'.req.userId,
                                                Undefined, Undefined)
      ]_vars

\* GET /api/events?start=2 has listed an event that starts before day 2
C14_Witness ==
    /\ resp.req.kind = "getEvents"
    /\ resp.status = 200
    /\ resp.req.query = [start |-> Some(2), end |-> Undefined]
    /\ \E i \in 1..Len(resp.body.rows) : resp.body.rows[i].startDate < 2

RECURSIVE SumOfCounts(_)
SumOfCounts(entries) ==
    IF entries = {} THEN 0
    ELSE LET x == CHOOSE y \in entries : TRUE
         IN  x.count + SumOfCounts(entries \ {x})

\* C15: in every reachable store and for every user, the entries of
\* getEventCountsByCategory(user) name each category at most once, name a
\* category only with a count of at least 1, give for each category the
\* number of the user's events in it, and sum to the number of events that
\* getEvents(user) returns, in both backends.
C15_CategoryCounts ==
    \A u \in 0..MaxUsers :
        \A counts \in {MemGetEventCountsByCategory(events, u),
                       DbGetEventCountsByCategory(events, u)} :
            /\ \A a, b \in counts : a.category = b.category => a = b
            /\ \A a \in counts :
                   /\ a.count >= 1
                   /\ a.count = Cardinality({i \in OwnedBy(u) :
                                      events[i].category = a.category})
            /\ SumOfCounts(counts)
                   = Len(MemGetEvents(events, u, Undefined, Undefined))
            /\ \A rows \in DbGetEvents(events, u, Undefined, Undefined) :
                   SumOfCounts(counts) = Len(rows)

\* GET /api/stats/categories has answered a user who has two events in one
\* category with a count of 2
C15_Witness ==
    /\ resp.req.kind = "stats"
    /\ resp.status = 200
    /\ \E a \in resp.body.counts :
          /\ a.count = 2
          /\ Cardinality({i \in OwnedBy(resp.req.userId) :
                             events[i].category = a.category}) = 2

\* partial updates given to updateEvent: what the route passes for the body
\* the clients send, one column, and two columns set to falsy values
UpdateInputs ==
    {Strip(body, InsertEventKeys) : body \in CalendarUpdates}
      \cup { [title |-> "Retro"],
             [description |-> EmptyString, isRecurring |-> FALSE] }

\* the two rows carry the same columns and differ at most on updatedAt
SameButUpdatedAt(a, b) ==
    /\ DOMAIN a = DOMAIN b
    /\ \A k \in DOMAIN a \ {"updatedAt"} : a[k] = b[k]

\* `first` and `second` are the results of updateEvent on the row id and,
\* with the same input, on the store that the first call left
UpdatedTwice(first, second, id) ==
    /\ IsDefined(first.event)
    /\ IsDefined(second.event)
    /\ first.events[id] = Get(first.event)
    /\ second.events[id] = Get(second.event)
    /\ SameButUpdatedAt(Get(first.event), Get(second.event))
    /\ Get(second.event).updatedAt >= Get(first.event).updatedAt
    /\ \A other \in DOMAIN first.events \ {id} :
           second.events[other] = first.events[other]

\* C16: for every stored event and every partial update p, updateEvent
\* applied by the owner with p and then again with p (the second call at the
\* same time or later) returns and stores a row that equals the row of the
\* first application on every column but updatedAt, and updatedAt does not
\* decrease, in both backends.
C16_UpdateIdempotent ==
    \A id \in DOMAIN events :
        \A p \in UpdateInputs :
            \A t1 \in {now, now + 1} :
                \A t2 \in {t1, t1 + 1} :
                    LET u == events[id].userId
                        m1 == MemUpdateEvent(events, id, u, p, t1)
                        m2 == MemUpdateEvent(m1.events, id, u, p, t2)
                        d1 == DbUpdateEvent(events, id, u, p, t1)
                        d2 == DbUpdateEvent(d1.events, id, u, p, t2)
                    IN  /\ UpdatedTwice(m1, m2, id)
                        /\ UpdatedTwice(d1, d2, id)

\* PUT /api/events/:id has answered with the stored row, at an earlier time,
\* and the same update applied again now gives that row with a later updatedAt
C16_Witness ==
    /\ resp.req.kind = "putEvent"
    /\ resp.status = 200
    /\ resp.req.id \in DOMAIN events
    /\ events[resp.req.id] = resp.body
    /\ resp.body.updatedAt < now
    /\ LET again == UpdateEvent(events, resp.req.id, resp.req.userId,
                                Strip(resp.req.body, InsertEventKeys))
       IN  /\ IsDefined(again.event)
           /\ SameButUpdatedAt(resp.body, Get(again.event))
           /\ Get(again.event).updatedAt > resp.body.updatedAt

\* the row `new` is the row `old` with the columns of p and updatedAt = t
UpdatedRow(old, new, p, t) ==
    /\ DOMAIN new = DOMAIN old
    /\ \A k \in DOMAIN p : new[k] = p[k]
    /\ new.updatedAt = t
    /\ \A k \in DOMAIN old \ (DOMAIN p \cup {"updatedAt"}) : new[k] = old[k]

\* the store `after` is the store `before` with the row id updated
UpdatedStore(before, after, id, p, t) ==
    /\ DOMAIN after = DOMAIN before
    /\ UpdatedRow(before[id], after[id], p, t)
    /\ \A other \in DOMAIN before \ {id} : after[other] = before[other]

\* C17: a successful updateEvent(id, userId, p) sets exactly the columns
\* named in p, sets updatedAt to the time of the call, leaves id, userId,
\* createdAt and every column not named in p as they were, changes no other
\* event and no reminder, user or session, and returns the updated row;
\* this holds for the store operation of both backends in every reachable
\* store and for every PUT /api/events/:id answered with 200.
C17_UpdateFrame ==
    [][ /\ \A id \in DOMAIN events :
               \A p \in UpdateInputs :
                   \A res \in {MemUpdateEvent(events, id, events[id].userId,
                                              p, now),
                               DbUpdateEvent(events, id, events[id].userId,
                                             p, now)} :
                       /\ IsDefined(res.event)
                       /\ Get(res.event) = res.events[id]
                       /\ UpdatedStore(events, res.events, id, p, now)
        /\ Handled("putEvent") /\ resp'.status = 200
             => LET id == resp'.req.id
                    p == Strip(resp'.req.body, InsertEventKeys)
                IN  /\ id \in DOMAIN events
                    /\ events[id].userId = resp'.req.userId
                    /\ resp'.body = events'[id]
                    /\ UpdatedStore(events, events', id, p, now)
                    /\ {"id", "userId", "createdAt"} \cap DOMAIN p = {}
                    /\ UNCHANGED << users, sessions, reminders >>
      ]_vars

\* PUT /api/events/:id has updated, after the day of its creation, an event
\* that keeps a category and a description the update did not name, while
\* another event is stored
C17_Witness ==
    /\ resp.req.kind = "putEvent"
    /\ resp.status = 200
    /\ resp.body.title = "Retro"
    /\ resp.body.category = "health"
    /\ resp.body.updatedAt > resp.body.createdAt
    /\ resp.req.id \in DOMAIN events
    /\ events[resp.req.id] = resp.body
    /\ Cardinality(DOMAIN events) = 2

\* `first` and `second` are the results of deleteEvent(id, u) on the store
\* and on the store that the first call left
DeletedOnce(first, second, id, u) ==
    LET owned == id \in DOMAIN events /\ events[id].userId = u
    IN  /\ first.deleted = owned
        /\ owned => first.events = Remove(events, id)
        /\ ~owned => first.events = events /\ first.reminders = reminders
        /\ second.deleted = FALSE
        /\ second.events = first.events
        /\ second.reminders = first.reminders

\* C18: deleteEvent(id, userId) returns true exactly when an event with
\* that id and that owner was stored, and then the event is gone and the
\* other events stay; when it returns false the store is unchanged; a second
\* deleteEvent with the same arguments returns false. DELETE
\* /api/events/:id answers 200 in the first case and 404 otherwise.
C18_DeleteResult ==
    [][ /\ \A id \in 0..nextEventId :
               \A u \in 0..MaxUsers :
                   LET m1 == MemDeleteEvent(events, reminders, id, u)
                       m2 == MemDeleteEvent(m1.events, m1.reminders, id, u)
                       d1 == DbDeleteEvent(events, reminders, id, u)
                       d2 == DbDeleteEvent(d1.events, d1.reminders, id, u)
                   IN  /\ DeletedOnce(m1, m2, id, u)
                       /\ DeletedOnce(d1, d2, id, u)
        /\ Handled("deleteEvent")
             => LET id == resp'.req.id
                    owned == /\ id \in DOMAIN events
                             /\ events[id].userId = resp'.req.userId
                IN  /\ resp'.status = IF owned THEN 200 ELSE 404
                    /\ owned => events' = Remove(events, id)
                    /\ ~owned => UNCHANGED << events, reminders >>
                    /\ UNCHANGED << users, sessions >>
      ]_vars

\* DELETE /api/events/:id has answered 404 for an id that an earlier DELETE
\* removed
C18_Witness ==
    /\ resp.req.kind = "deleteEvent"
    /\ resp.status = 404
    /\ resp.req.id \in deletedEvents
    /\ resp.req.id \notin DOMAIN events

\* ===================================================================
\* Properties of logout (SpecAuth)
\* ===================================================================
\* C19: deleteSession with a token that names no stored session leaves the
\* sessions as they are, and deleteSession applied twice leaves what one
\* application leaves, in both backends; POST /api/auth/logout always answers
\* 200 "Logged out successfully", whether it presents no token, an unknown
\* token, the token of an expired session or the token of a live one, and
\* afterwards the token it presented names no session.
C19_LogoutIdempotent ==
    [][ /\ \A tok \in PresentableTokens \cup DOMAIN sessions :
            LET m1 == MemDeleteSession(sessions, tok)
                m2 == MemDeleteSession(m1, tok)
                d1 == DbDeleteSession(sessions, tok)
                d2 == DbDeleteSession(d1, tok)
            IN  /\ tok \notin DOMAIN sessions => m1 = sessions /\ d1 = sessions
                /\ m2 = m1
                /\ d2 = d1
                /\ tok \notin DOMAIN m1 \cup DOMAIN d1
        /\ AnsweredOnArrival({"logout"}) =>
               LET tok == Presented(resp'.req)
               IN  /\ resp'.status = 200
                   /\ resp'.body = Msg("Logged out successfully")
                   /\ NoToken(tok) => sessions' = sessions
                   /\ ~NoToken(tok) =>
                          /\ Get(tok) \notin DOMAIN sessions'
                          /\ Get(tok) \notin DOMAIN sessions =>
                                 sessions' = sessions
                   /\ UNCHANGED << users, events, reminders >>
      ]_vars

\* a logout that presented a token no session was ever stored under was
\* answered with the success message, after the logout of an issued token,
\* while an expired session is stored
C19_Witness ==
    /\ resp.req.kind = "logout"
    /\ resp.status = 200
    /\ resp.body = Msg("Logged out successfully")
    /\ Presented(resp.req) = Some(BogusToken)
    /\ deletedTokens \cap IssuedTokens # {}
    /\ \E tok \in DOMAIN sessions : sessions[tok].expiresAt < now

\* ===================================================================
\* Referential integrity of the reminders (SpecEvents)
\* ===================================================================
\* C20: in every reachable state the eventId of every stored reminder is the
\* id of a stored event: deleteEvent leaves no reminder of the event it
\* removes, and a POST /api/reminders that runs while the event is deleted
\* stores no reminder for it.
C20_NoOrphanReminders ==
    \A id \in DOMAIN reminders : reminders[id].eventId \in DOMAIN events

\* ===================================================================
\* All-or-nothing requests (SpecFaults)
\* ===================================================================
ErrorStatuses == {400, 401, 404, 500}

\* C21: a step that answers a request with 400, 401, 404 or 500 changes
\* nothing in the store, and the request it answers has changed nothing
\* before: a registration answered with an error has stored no user.
C21_AllOrNothing ==
    [][ (resp' # resp /\ resp'.status \in ErrorStatuses) =>
            /\ storeVars' = storeVars
            /\ (resp'.req.kind = "register" /\ "user" \in DOMAIN resp'.req) =>
                   \A i \in 1..Len(users') : users'[i] # resp'.req.user
      ]_vars

\* ===================================================================
\* Concurrent writers (SpecWriters)
\* ===================================================================
\* C22: two PUT /api/events/:id of the owner on the same event, both sent
\* when the row was B and answered 200 one after the other with updates p
\* and then q, leave the row B with p and then q written over it: q's value
\* on every column both set, the value of the only writer on the others,
\* B's value on the rest, and updatedAt of the second write; that is the row
\* of the serial order p, q, and the second answer returns it.
C22_LastWriterWins ==
    [][ (/\ Handled("putEvent") /\ resp'.status = 200
         /\ resp.req.kind = "putEvent" /\ resp.status = 200
         /\ resp.req.id = resp'.req.id
         /\ resp.req.body.event = resp'.req.body.event
         /\ resp.req.id \in DOMAIN events
         /\ events[resp.req.id] = resp.body) =>
            LET id == resp'.req.id
                B == resp'.req.body.event
                p == Strip(resp.req.body, InsertEventKeys)
                q == Strip(resp'.req.body, InsertEventKeys)
            IN  /\ events'[id]
                     = Merge(Merge(Merge(B, p), q), [updatedAt |-> now])
                /\ resp'.body = events'[id]
                /\ \A k \in DOMAIN q : events'[id][k] = q[k]
                /\ \A k \in DOMAIN p \ DOMAIN q : events'[id][k] = p[k]
                /\ \A k \in DOMAIN B \ (DOMAIN p \cup DOMAIN q \cup {"updatedAt"}) :
                       events'[id][k] = B[k]
      ]_vars

\* two PUT requests with different updates were sent while the event was as
\* created; both have been answered 200, and the stored row carries the
\* title of the second writer and the column each of them set alone
C22_Witness ==
    /\ resp.req.kind = "putEvent"
    /\ resp.status = 200
    /\ resp.req.body.event.title = "Standup"
    /\ resp.req.body.event.startDate = 1
    /\ resp.req.body.event.category = "work"
    /\ resp.req.id \in DOMAIN events
    /\ events[resp.req.id] = resp.body
    /\ resp.body.title = resp.req.body.title
    /\ resp.body.startDate = 0
    /\ resp.body.category = "health"
    /\ resp.body.updatedAt > resp.body.createdAt

\* ===================================================================
\* Properties of the browser (SpecBrowser)
\* ===================================================================
\* C23: when a query sent through the queryFn that useAuth installed is
\* answered 401, the sessionToken state of the component of the closure is
\* null and localStorage has no 'sessionToken' entry once the query has
\* failed; and no query is sent with a token for which a query has been
\* answered 401.
C23_LogoutOn401 ==
    [][ /\ \A q \in inflight :
            (/\ inflight' = inflight \ {q}
             /\ ~IsDefined(GetSession(q[2]))
             /\ q[2] \in rejected') =>
                /\ ~IsDefined(localStorage')
                /\ ~IsDefined(hooks'[q[3]])
        /\ \A q \in inflight' \ inflight : q[2] \notin rejected
      ]_vars

\* C30: while the browser holds no session token the cached user is empty
\* and Router renders LoginPage; AuthenticatedApp is rendered only while a
\* session token is held.
C30_LoggedOutShowsLogin ==
    /\ ~IsDefined(localStorage) =>
           /\ ~IsDefined(me)
           /\ Rendered = "LoginPage"
    /\ Rendered = "AuthenticatedApp" => IsDefined(localStorage)

\* ===================================================================
\* Properties of the import (SpecImport)
\* ===================================================================
\* the input events whose key is not the key of an event the user had when
\* the import started
NotHeld(file) ==
    SelectSeq(file, LAMBDA event :
                  /\ ~ToISOStringThrows(event)
                  /\ GetDedupeKey(event) \notin importExisting)

HeldWithKey(userId, k) ==
    { id \in DOMAIN events :
        events[id].userId = userId /\ GetDedupeKey(events[id]) = k }

\* the places of a file with a key
InFileWithKey(file, k) ==
    { i \in DOMAIN file : GetDedupeKey(file[i]) = k }

\* C28: if the imported file contains two or more events with the same key
\* and the user has no event with that key, then after the import the user
\* has at most one event with that key; and importing the same file again,
\* after a first import in which every POST succeeded, creates no event.
C28_NoDuplicatesFromOneFile ==
    /\ [](importPc = "done" /\ IsDefined(me) =>
            \A i \in DOMAIN importFile :
                LET k == GetDedupeKey(importFile[i])
                IN  (/\ Cardinality(InFileWithKey(importFile, k)) >= 2
                     /\ k \notin importExisting) =>
                        Cardinality(HeldWithKey(Get(me), k)) <= 1)
    /\ [][(/\ importPc = "done"
           /\ Cardinality(importCreated) = Len(importPosted)
           /\ importPc' = "post"
           /\ importFile' = importFile) =>
              importQueue' = << >>]_vars

\* ===================================================================
\* Properties of the month view (SpecMonth)
\* ===================================================================
InMonth(instant, m) == StartOfMonth(m) <= instant /\ instant <= EndOfMonth(m)

\* C29: the calendar grid's query for the displayed month (start = first day
\* of the month, end = last day of the month, each sent as a date without
\* time and read by the server with new Date) is answered with every event
\* of the user whose startDate falls anywhere within that month, the events
\* that start at any time of day on the month's last day included.
C29_MonthViewComplete ==
    [][\A c \in Clients, m \in Months :
          (/\ req[c].kind = "getEvents"
           /\ req[c].query = GridQuery(m)
           /\ req'[c] = Idle) =>
              /\ resp'.status = 200
              /\ \A id \in DOMAIN events :
                    (/\ events[id].userId = req[c].userId
                     /\ InMonth(events[id].startDate, m)) =>
                        id \in RowIds(resp'.body.rows)]_vars

\* ===================================================================
\* Properties of the reminders (SpecReminders)
\* ===================================================================
\* what POST /api/reminders passes to createReminder for an event
ReminderInputs(eventId) ==
    { Strip(r.body, InsertReminderKeys) :
        r \in {x \in ReminderRequests :
                  x.kind = "postReminder" /\ x.body.eventId = eventId} }

\* two results of createReminder for one input, the second on the store the
\* first one left: two stored rows, alike but for the id
CreatedTwice(first, second, insertReminder) ==
    /\ first.ok /\ second.ok
    /\ Get(first.reminder).id # Get(second.reminder).id
    /\ Get(first.reminder).id \notin DOMAIN reminders
    /\ \A res \in {first, second} :
          /\ Get(res.reminder).eventId = insertReminder.eventId
          /\ Get(res.reminder).minutesBefore = insertReminder.minutesBefore
          /\ Get(res.reminder).isTriggered = FALSE
          /\ Get(res.reminder).id \in DOMAIN second.reminders
          /\ second.reminders[Get(res.reminder).id] = Get(res.reminder)
    /\ Cardinality(DOMAIN second.reminders) =
           Cardinality(DOMAIN reminders) + 2

\* C25: every reminder is created with isTriggered = false whatever the
\* request body says, and no operation sets it to true: in every reachable
\* state all stored reminders have isTriggered = false; and creating two
\* reminders with the same eventId and minutesBefore yields two distinct
\* stored reminders.
C25_TriggerFlagDead ==
    /\ \A id \in DOMAIN reminders : reminders[id].isTriggered = FALSE
    /\ \A eventId \in DOMAIN events :
          \A insertReminder \in ReminderInputs(eventId) :
              LET first == CreateReminder(reminders, events,
                                          nextReminderId + 1, insertReminder)
                  second == CreateReminder(first.reminders, events,
                                           nextReminderId + 2, insertReminder)
              IN  CreatedTwice(first, second, insertReminder)

\* the database-backed server has answered 201 to a POST /api/reminders whose
\* body said isTriggered: true, and the event has that reminder, so that a
\* further one with the same eventId and minutesBefore is a duplicate
C25_Witness ==
    /\ backend = "db"
    /\ resp.req.kind = "postReminder"
    /\ resp.status = 201
    /\ "isTriggered" \in DOMAIN resp.req.body
    /\ resp.req.body.isTriggered
    /\ resp.body.id \in DOMAIN reminders
    /\ reminders[resp.body.id].eventId \in DOMAIN events
    /\ reminders[resp.body.id].minutesBefore = 15

\* ===================================================================
\* Properties of ownership (SpecOwners)
\* ===================================================================
IdentityColumns == {"id", "userId", "createdAt"}

\* C26: for every request body, PUT /api/events/:id never changes the
\* userId, id or createdAt of any event (validation drops such keys of the
\* body before updateEvent is called), and an event is stored with the user
\* of the session that created it as its owner: in every reachable state
\* the owner of an event is the user whose session created it.
C26_OwnershipImmutable ==
    [][ /\ \A id \in DOMAIN events \cap DOMAIN events' :
               \A k \in IdentityColumns : events'[id][k] = events[id][k]
        /\ \A id \in DOMAIN events' \ DOMAIN events :
               \E c \in Clients :
                   /\ req[c].kind = "postEvent"
                   /\ req'[c] = Idle
                   /\ req[c].sessionToken \in DOMAIN sessions
                   /\ sessions[req[c].sessionToken].userId = req[c].userId
                   /\ events'[id].userId = req[c].userId
                   /\ events'[id].id = id
        /\ \A c \in Clients :
               (req[c].kind = "putEvent" /\ req'[c] = Idle
                   /\ resp'.status = 200) =>
                   IdentityColumns
                       \cap DOMAIN Strip(req[c].body, InsertEventKeys) = {}
      ]_vars

\* PUT /api/events/:id, with a body that names the other user as the owner,
\* another id and another creation time, has been answered 200 and has
\* changed the title of the event, which keeps its owner, id and createdAt
C26_Witness ==
    /\ resp.req.kind = "putEvent"
    /\ resp.status = 200
    /\ IdentityColumns \subseteq DOMAIN resp.req.body
    /\ resp.req.id \in DOMAIN events
    /\ events[resp.req.id].title = resp.req.body.title
    /\ events[resp.req.id].userId = resp.req.userId
    /\ \A k \in IdentityColumns :
           events[resp.req.id][k] # resp.req.body[k]
    /\ Cardinality(DOMAIN events) = MaxEvents

\* ===================================================================
\* Independence of the sessions (SpecAuth)
\* ===================================================================
\* a login or a registration has been answered 200 in this step
LoggedIn ==
    \E c \in Clients :
        /\ req[c].kind \in {"login", "register"}
        /\ req'[c] = Idle
        /\ resp'.status = 200

\* C27: a successful login or registration adds exactly one new session and
\* leaves every stored session, of that and of every other user, unchanged
\* and resolving as before; logout removes only the session of the token it
\* was given; and a session leaves the store through deleteSession only (an
\* expired session is filtered, never purged).
C27_SessionsIndependent ==
    [][LET added == DOMAIN sessions' \ DOMAIN sessions
           removed == DOMAIN sessions \ DOMAIN sessions'
       IN  /\ \A tok \in DOMAIN sessions \cap DOMAIN sessions' :
                  /\ sessions'[tok] = sessions[tok]
                  /\ MemGetSession(sessions', tok, now')
                         = MemGetSession(sessions, tok, now')
                  /\ DbGetSession(sessions', tok, now')
                         = DbGetSession(sessions, tok, now')
           /\ LoggedIn =>
                  /\ added = {resp'.body.sessionToken}
                  /\ removed = {}
                  /\ sessions'[resp'.body.sessionToken].userId
                         = resp'.body.user.id
           /\ added # {} => LoggedIn
           /\ removed # {} =>
                  /\ AnsweredOnArrival({"logout"})
                  /\ removed = {Get(Presented(resp'.req))}
      ]_vars

\* a user who held two live sessions has logged out of one of them, and the
\* other one still resolves to that user
C27_Witness ==
    /\ resp.req.kind = "logout"
    /\ Len(users) = 1
    /\ nextToken = MaxTokens
    /\ Cardinality(deletedTokens \cap IssuedTokens) = 1
    /\ \E tok \in DOMAIN sessions :
          /\ IsDefined(GetSession(tok))
          /\ Get(GetSession(tok)).userId = users[1].id

=============================================================================
